---- MODULE Spec2Model ----
(***************************************************************************)
(* The incrementally updated octree of Turso3D/Renderer/Octree.cpp.        *)
(*                                                                         *)
(* Coordinates are fixed point: one world unit is 16 model units, so that  *)
(* every centre and half size of the default 8-level tree (2000 / 2^8 =    *)
(* 7.8125) is an integer.  Octants are pool slots: slot 0 is the root (a   *)
(* member of the Octree), slots 1..MaxOctants are the allocator's.         *)
(***************************************************************************)
EXTENDS Integers, Sequences, FiniteSets, TLC

VARIABLES
    oct,              \* slot -> Octant record (the root and the allocator's pool)
    node,             \* object -> the tracked object's fields
    updateQueue,      \* std::vector<OctreeNode*>, 0 = nullptr
    sortDirtyOctants, \* std::vector<Octant*>
    initialRes,       \* std::vector<std::pair<OctreeNode*, float> >, RaycastSingle's
    finalRes,         \* std::vector<RaycastResult>, RaycastSingle's
    returned,         \* what the last ray query gave its caller
    fault,            \* undefined behaviour met so far (use after free, double free)
    hist,             \* the last operation and what it started from
    inUpdate          \* where a call of Update stands when it is taken step by step

vars == <<oct, node, updateQueue, sortDirtyOctants, initialRes, finalRes, returned,
          fault, hist, inUpdate>>

---------------------------------------------------------------------------
(* Bounds of the model *)

\* Longest pending queue the model lets QueueUpdate build.
MaxQueue == 2
\* Slots of the allocator's pool (the real pool grows on demand).
MaxOctants == 8

(* Program constants *)
DEFAULT_OCTREE_SIZE == 1000
DEFAULT_OCTREE_LEVELS == 8
MAX_OCTREE_LEVELS == 256
NUM_OCTANTS == 8

\* The tracked objects (OctreeNode instances), by address.
Objects == {1, 2}
NullNode == 0          \* a null OctreeNode*
Root == 0              \* &root
NullOctant == -1       \* a null Octant*
Slots == 0..MaxOctants
ChildIndices == 0..(NUM_OCTANTS - 1)

---------------------------------------------------------------------------
(* Math: Vector3 and BoundingBox *)

\* A float is counted in units of the spacing of the floats at the bottom of
\* their range, where sums and differences are exact and a product by 0.5f
\* rounds to the nearest unit, ties to even.  Fx(v) puts the world coordinate
\* v at 16 * v units: binary floats behave alike at every scale as long as
\* nothing rounds, and nothing does in the trees built from these values.
Fx(v) == v * 16

\* 0.5f * x
Half(x) ==
    IF x % 2 = 0 THEN x \div 2
    ELSE LET below == (x - 1) \div 2
         IN  IF below % 2 = 0 THEN below ELSE below + 1

Vector3(x, y, z) == <<x, y, z>>

BoundingBox(mn, mx) == [min |-> mn, max |-> mx]

\* BoundingBox(float min, float max)
Cube(lo, hi) == BoundingBox(Vector3(lo, lo, lo), Vector3(hi, hi, hi))

Center(b) == [i \in 1..3 |-> Half(b.max[i] + b.min[i])]

Size(b) == [i \in 1..3 |-> b.max[i] - b.min[i]]

HalfSize(b) == [i \in 1..3 |-> Half(b.max[i] - b.min[i])]

\* BoundingBox::IsInside(const BoundingBox&)
IsInside(outer, box) ==
    IF \E i \in 1..3 : box.max[i] < outer.min[i] \/ box.min[i] > outer.max[i]
    THEN "OUTSIDE"
    ELSE IF \E i \in 1..3 : box.min[i] < outer.min[i] \/ box.max[i] > outer.max[i]
    THEN "INTERSECTS"
    ELSE "INSIDE"

Clamp(v, lo, hi) == IF v < lo THEN lo ELSE IF v > hi THEN hi ELSE v

ZeroBox == Cube(0, 0)

---------------------------------------------------------------------------
(* Octant *)

\* Octant::Octant(): the geometry and the level are set by Initialize.
NewOctant ==
    [ live |-> TRUE,
      parent |-> NullOctant,
      numNodes |-> 0,
      sortDirty |-> FALSE,
      children |-> [i \in ChildIndices |-> NullOctant],
      nodes |-> <<>>,
      level |-> 0,
      worldBoundingBox |-> ZeroBox,
      center |-> Vector3(0, 0, 0),
      halfSize |-> Vector3(0, 0, 0),
      cullingBox |-> ZeroBox ]

\* A slot of the pool that holds no octant.
FreeSlot == [NewOctant EXCEPT !.live = FALSE]

\* Octant::Initialize
Initialize(octant, parent_, boundingBox, level_) ==
    LET hs == HalfSize(boundingBox) IN
    [octant EXCEPT
        !.worldBoundingBox = boundingBox,
        !.center = Center(boundingBox),
        !.halfSize = hs,
        !.cullingBox = BoundingBox([i \in 1..3 |-> boundingBox.min[i] - hs[i]],
                                   [i \in 1..3 |-> boundingBox.max[i] + hs[i]]),
        !.level = level_,
        !.parent = parent_]

\* FitBoundingBox without the test against the child's culling box.
FitBySizeOnly(octant, box, boxSize) ==
    octant.level <= 1 \/ \E i \in 1..3 : boxSize[i] >= octant.halfSize[i]

\* FitBoundingBox taking level 2 for the last level.
FitBoundingBoxLevelTwo(octant, box, boxSize) ==
    IF octant.level <= 2 \/ \E i \in 1..3 : boxSize[i] >= octant.halfSize[i]
    THEN TRUE
    ELSE \E i \in 1..3 :
            \/ box.min[i] <= octant.worldBoundingBox.min[i] - Half(octant.halfSize[i])
            \/ box.max[i] >= octant.worldBoundingBox.max[i] + Half(octant.halfSize[i])

\* FitBoundingBox comparing with the bounds a whole halfSize beyond the
\* world box.
FitBoundingBoxFullMargin(octant, box, boxSize) ==
    IF octant.level <= 1 \/ \E i \in 1..3 : boxSize[i] >= octant.halfSize[i]
    THEN TRUE
    ELSE \E i \in 1..3 :
            \/ box.min[i] <= octant.worldBoundingBox.min[i] - octant.halfSize[i]
            \/ box.max[i] >= octant.worldBoundingBox.max[i] + octant.halfSize[i]

\* FitBoundingBox with strict comparisons against the bounds of the child's
\* culling box.
FitBoundingBoxStrict(octant, box, boxSize) ==
    IF octant.level <= 1 \/ \E i \in 1..3 : boxSize[i] >= octant.halfSize[i]
    THEN TRUE
    ELSE \E i \in 1..3 :
            \/ box.min[i] < octant.worldBoundingBox.min[i] - Half(octant.halfSize[i])
            \/ box.max[i] > octant.worldBoundingBox.max[i] + Half(octant.halfSize[i])

\* FitBoundingBox without the test of the level.
FitBoundingBoxAnyLevel(octant, box, boxSize) ==
    IF \E i \in 1..3 : boxSize[i] >= octant.halfSize[i]
    THEN TRUE
    ELSE \E i \in 1..3 :
            \/ box.min[i] <= octant.worldBoundingBox.min[i] - Half(octant.halfSize[i])
            \/ box.max[i] >= octant.worldBoundingBox.max[i] + Half(octant.halfSize[i])

\* Octant::FitBoundingBox
FitBoundingBox(octant, box, boxSize) ==
    IF octant.level <= 1 \/ \E i \in 1..3 : boxSize[i] >= octant.halfSize[i]
    THEN TRUE
    ELSE IF \E i \in 1..3 :
                \/ box.min[i] <= octant.worldBoundingBox.min[i] - Half(octant.halfSize[i])
                \/ box.max[i] >= octant.worldBoundingBox.max[i] + Half(octant.halfSize[i])
    THEN TRUE
    ELSE FALSE

\* Octant::ChildIndex(const Vector3&): one bit per axis, set when the point
\* is not below the centre.
ChildIndex(octant, position) ==
      (IF position[1] < octant.center[1] THEN 0 ELSE 1)
    + (IF position[2] < octant.center[2] THEN 0 ELSE 2)
    + (IF position[3] < octant.center[3] THEN 0 ELSE 4)

---------------------------------------------------------------------------
(* The octree's data, as the private operations pass it along:             *)
(* S = [oct, node, updateQueue, sortDirtyOctants, fault, allocs, frees,    *)
(* moves]; allocs and frees count the allocator's calls, moves records     *)
(* the kinds of octant change Update made.                                 *)

MinOf(set) == CHOOSE x \in set : \A y \in set : x <= y

\* What a dereference of octant pointer p adds to the faults.
Deref(S, p) ==
    IF p = NullOctant THEN {"null dereference"}
    ELSE IF ~S.oct[p].live THEN {"use after free"}
    ELSE {}

\* Allocator<Octant>::Allocate: a slot that holds no octant, constructed.
Allocate(octs) == MinOf({s \in 1..MaxOctants : ~octs[s].live})

\* Allocator<Octant>::Free
Free(S, p) ==
    IF p = NullOctant THEN [S EXCEPT !.fault = @ \cup {"free of null"}]
    ELSE IF ~S.oct[p].live THEN [S EXCEPT !.fault = @ \cup {"double free"}]
    ELSE [S EXCEPT
            !.oct[p] = FreeSlot,
            !.frees = @ + 1,
            !.fault = @ \cup
                (IF S.oct[p].nodes # <<>>
                    \/ \E i \in ChildIndices : S.oct[p].children[i] # NullOctant
                 THEN {"freed in use"} ELSE {})]

\* AddNode counting the node in the receiving octant only.
IncrementOctantOnly(octs, octant) ==
    [octs EXCEPT ![octant].numNodes = @ + 1]

\* The while loop of Octree::AddNode.
RECURSIVE IncrementBranch(_, _)
IncrementBranch(octs, octant) ==
    IF octant = NullOctant THEN octs
    ELSE IncrementBranch([octs EXCEPT ![octant].numNodes = @ + 1],
                         octs[octant].parent)

\* AddNode whose count starts at the parent of the receiving octant.
AddNodeCountingFromParent(S, n, octant) ==
    LET wasDirty == S.oct[octant].sortDirty
        pushed == [S.oct EXCEPT ![octant].nodes = Append(@, n),
                                ![octant].sortDirty = TRUE]
    IN  [S EXCEPT
            !.oct = IncrementBranch(pushed, S.oct[octant].parent),
            !.node[n].octant = octant,
            !.sortDirtyOctants = IF wasDirty THEN @ ELSE Append(@, octant),
            !.fault = @ \cup Deref(S, octant)]

\* Octree::AddNode
AddNode(S, n, octant) ==
    LET wasDirty == S.oct[octant].sortDirty
        pushed == [S.oct EXCEPT ![octant].nodes = Append(@, n),
                                ![octant].sortDirty = TRUE]
    IN  [S EXCEPT
            !.oct = IncrementBranch(pushed, octant),
            !.node[n].octant = octant,
            !.sortDirtyOctants = IF wasDirty THEN @ ELSE Append(@, octant),
            !.fault = @ \cup Deref(S, octant)]

\* DeleteChildOctant that frees the child and leaves the parent's pointer.
DeleteChildOctantKeepLink(S, octant, index) ==
    Free(S, S.oct[octant].children[index])

\* DeleteChildOctant that nulls the parent's pointer and frees nothing.
DeleteChildOctantUnlinkOnly(S, octant, index) ==
    [S EXCEPT !.oct[octant].children[index] = NullOctant]

\* Octree::DeleteChildOctant
DeleteChildOctant(S, octant, index) ==
    LET freed == Free(S, S.oct[octant].children[index])
    IN  [freed EXCEPT !.oct[octant].children[index] = NullOctant]

\* RemoveNode walking up the branch without erasing emptied octants.
RECURSIVE DecrementNoErase(_, _)
DecrementNoErase(S, octant) ==
    IF octant = NullOctant THEN S
    ELSE DecrementNoErase([S EXCEPT !.oct[octant].numNodes = @ - 1],
                          S.oct[octant].parent)

\* The while loop of Octree::RemoveNode(OctreeNode*, Octant*).
RECURSIVE DecrementBranch(_, _)
DecrementBranch(S, octant) ==
    IF octant = NullOctant THEN S
    ELSE
        LET dec == [S EXCEPT !.oct[octant].numNodes = @ - 1]
            next == S.oct[octant].parent
            pruned ==
                IF dec.oct[octant].numNodes = 0 /\ next # NullOctant
                THEN DeleteChildOctant(dec, next,
                         ChildIndex(dec.oct[next], dec.oct[octant].center))
                ELSE dec
        IN  DecrementBranch(pruned, next)

\* Octree::RemoveNode(OctreeNode*, Octant*)
RemoveNodeFromOctant(S, n, octant) ==
    IF octant = NullOctant THEN S
    ELSE
        LET nodes == S.oct[octant].nodes
            at == {i \in 1..Len(nodes) : nodes[i] = n}
            T == [S EXCEPT !.fault = @ \cup Deref(S, octant)]
        IN  IF at = {} THEN T
            ELSE
                LET i == MinOf(at)
                    erased == SubSeq(nodes, 1, i - 1) \o SubSeq(nodes, i + 1, Len(nodes))
                IN  DecrementBranch([T EXCEPT !.oct[octant].nodes = erased], octant)

\* CreateChildOctant giving the child the level of its parent.
CreateChildOctantSameLevel(S, octant, index) ==
    IF S.oct[octant].children[index] # NullOctant
    THEN [S |-> S, child |-> S.oct[octant].children[index]]
    ELSE
        LET o == S.oct[octant]
            upper(bit) == (index \div bit) % 2 = 1
            bitOf == <<1, 2, 4>>
            newMin == [i \in 1..3 |-> IF upper(bitOf[i]) THEN o.center[i]
                                      ELSE o.worldBoundingBox.min[i]]
            newMax == [i \in 1..3 |-> IF upper(bitOf[i]) THEN o.worldBoundingBox.max[i]
                                      ELSE o.center[i]]
            child == Allocate(S.oct)
        IN  [S |-> [S EXCEPT
                      !.oct[child] = Initialize(NewOctant, octant,
                                                BoundingBox(newMin, newMax), o.level),
                      !.oct[octant].children[index] = child,
                      !.allocs = @ + 1],
             child |-> child]

\* Octree::CreateChildOctant: [S, child].
CreateChildOctant(S, octant, index) ==
    IF S.oct[octant].children[index] # NullOctant
    THEN [S |-> S, child |-> S.oct[octant].children[index]]
    ELSE
        LET o == S.oct[octant]
            upper(bit) == (index \div bit) % 2 = 1
            bitOf == <<1, 2, 4>>
            newMin == [i \in 1..3 |-> IF upper(bitOf[i]) THEN o.center[i]
                                      ELSE o.worldBoundingBox.min[i]]
            newMax == [i \in 1..3 |-> IF upper(bitOf[i]) THEN o.worldBoundingBox.max[i]
                                      ELSE o.center[i]]
            child == Allocate(S.oct)
        IN  [S |-> [S EXCEPT
                      !.oct[child] = Initialize(NewOctant, octant,
                                                BoundingBox(newMin, newMax), o.level - 1),
                      !.oct[octant].children[index] = child,
                      !.allocs = @ + 1],
             child |-> child]

\* The loop over octant->nodes of Octree::DeleteChildOctants.
RECURSIVE ClearNodes(_, _, _)
ClearNodes(nodeState, nodes, deletingOctree) ==
    IF nodes = <<>> THEN nodeState
    ELSE
        LET n == Head(nodes)
        IN  ClearNodes([nodeState EXCEPT
                           ![n].octant = NullOctant,
                           ![n].queued = FALSE,
                           ![n].octree = IF deletingOctree THEN FALSE ELSE @],
                       Tail(nodes), deletingOctree)

\* Octree::DeleteChildOctants; DeleteChildren is its loop over children[i].
RECURSIVE DeleteChildOctants(_, _, _)
RECURSIVE DeleteChildren(_, _, _, _)

\* DeleteChildOctants without the test that spares the root.
DeleteChildOctantsRootToo(S, octant, deletingOctree) ==
    LET cleared == [S EXCEPT
                      !.node = ClearNodes(@, S.oct[octant].nodes, deletingOctree),
                      !.oct[octant].nodes = <<>>,
                      !.oct[octant].numNodes = 0,
                      !.fault = @ \cup Deref(S, octant)]
    IN  Free(DeleteChildren(cleared, octant, 0, deletingOctree), octant)

DeleteChildOctants(S, octant, deletingOctree) ==
    LET cleared == [S EXCEPT
                      !.node = ClearNodes(@, S.oct[octant].nodes, deletingOctree),
                      !.oct[octant].nodes = <<>>,
                      !.oct[octant].numNodes = 0,
                      !.fault = @ \cup Deref(S, octant)]
        childless == DeleteChildren(cleared, octant, 0, deletingOctree)
    IN  IF octant # Root THEN Free(childless, octant) ELSE childless

DeleteChildren(S, octant, i, deletingOctree) ==
    IF i >= NUM_OCTANTS THEN S
    ELSE IF S.oct[octant].children[i] # NullOctant
    THEN DeleteChildren(
            [DeleteChildOctants(S, S.oct[octant].children[i], deletingOctree)
                EXCEPT !.oct[octant].children[i] = NullOctant],
            octant, i + 1, deletingOctree)
    ELSE DeleteChildren(S, octant, i + 1, deletingOctree)

\* Octree::CollectNodes(std::vector<OctreeNode*>&, Octant*): what it appends.
RECURSIVE CollectNodes(_, _)
RECURSIVE CollectChildren(_, _, _)
CollectNodes(octs, octant) ==
    octs[octant].nodes \o CollectChildren(octs, octant, 0)

CollectChildren(octs, octant, i) ==
    IF i >= NUM_OCTANTS THEN <<>>
    ELSE (IF octs[octant].children[i] # NullOctant
          THEN CollectNodes(octs, octs[octant].children[i]) ELSE <<>>)
         \o CollectChildren(octs, octant, i + 1)

---------------------------------------------------------------------------
(* Octree: Update *)

\* Whether octant a is a proper ancestor of octant b.
RECURSIVE IsAncestor(_, _, _)
IsAncestor(octs, a, b) ==
    IF b = NullOctant \/ octs[b].parent = NullOctant THEN FALSE
    ELSE octs[b].parent = a \/ IsAncestor(octs, a, octs[b].parent)

\* Whether an octant is linked from the root through live octants.
RECURSIVE Reachable(_, _)
Reachable(octs, octant) ==
    IF octant = NullOctant THEN FALSE
    ELSE IF octant = Root THEN TRUE
    ELSE /\ octs[octant].live
         /\ octs[octant].parent # NullOctant
         /\ \E i \in ChildIndices : octs[octs[octant].parent].children[i] = octant
         /\ Reachable(octs, octs[octant].parent)

\* The kind of a move, from the tree before it.
MoveKind(octs, oldOctant, newOctant) ==
    IF oldOctant = NullOctant THEN "insert"
    ELSE IF IsAncestor(octs, oldOctant, newOctant) THEN "down"
    ELSE IF IsAncestor(octs, newOctant, oldOctant) THEN "up"
    ELSE "across"

\* Lines 125-131 of Octree::Update: add first, then remove.
MoveNodeRemoveFirst(S, n, oldOctant, newOctant) ==
    IF newOctant # oldOctant
    THEN LET removed == IF oldOctant # NullOctant
                        THEN RemoveNodeFromOctant(S, n, oldOctant) ELSE S
             added == AddNode(removed, n, newOctant)
         IN  [added EXCEPT
                !.moves = @ \cup {MoveKind(S.oct, oldOctant, newOctant)},
                !.fault = @ \cup (IF Reachable(added.oct, newOctant) THEN {}
                                  ELSE {"new octant freed"})]
    ELSE S

MoveNodeAlways(S, n, oldOctant, newOctant) ==
    LET added == AddNode(S, n, newOctant)
    IN  IF oldOctant # NullOctant /\ oldOctant # newOctant
        THEN RemoveNodeFromOctant(added, n, oldOctant) ELSE added

MoveNode(S, n, oldOctant, newOctant) ==
    IF newOctant # oldOctant
    THEN LET added == AddNode(S, n, newOctant)
             moved == IF oldOctant # NullOctant
                      THEN RemoveNodeFromOctant(added, n, oldOctant) ELSE added
         IN  [moved EXCEPT
                !.moves = @ \cup {MoveKind(S.oct, oldOctant, newOctant)},
                !.fault = @ \cup (IF Reachable(moved.oct, newOctant) THEN {}
                                  ELSE {"new octant freed"})]
    ELSE S

\* insertHere decided by the size of the box alone, in the root as elsewhere.
InsertHereSizeOnly(S, newOctant, box, boxSize) ==
    FitBySizeOnly(S.oct[newOctant], box, boxSize)

\* Line 119-121 of Octree::Update.
InsertHere(S, newOctant, box, boxSize) ==
    IF newOctant = Root
    THEN \/ IsInside(S.oct[newOctant].cullingBox, box) # "INSIDE"
         \/ FitBoundingBox(S.oct[newOctant], box, boxSize)
    ELSE FitBoundingBox(S.oct[newOctant], box, boxSize)

\* The for (;;) loop of Octree::Update, lines 116-136.
RECURSIVE Reinsert(_, _, _, _)
Reinsert(S, n, oldOctant, newOctant) ==
    LET box == S.node[n].box
    IN  IF InsertHere(S, newOctant, box, Size(box))
        THEN MoveNode(S, n, oldOctant, newOctant)
        ELSE LET c == CreateChildOctant(S, newOctant,
                          ChildIndex(S.oct[newOctant], Center(box)))
             IN  Reinsert(c.S, n, oldOctant, c.child)


\* The fast path, line 109 of Octree::Update.
StillFits(S, n, oldOctant) ==
    LET box == S.node[n].box
    IN  /\ oldOctant # NullOctant
        /\ IsInside(S.oct[oldOctant].cullingBox, box) = "INSIDE"
        /\ FitBoundingBox(S.oct[oldOctant], box, Size(box))

\* One queue entry handled without the fast path: the node is taken out of
\* its octant and inserted anew from the root.
UpdateNodeAfresh(S, n, frameNumber) ==
    LET flagged == [S EXCEPT !.node[n].queued = FALSE,
                             !.node[n].lastUpdateFrameNumber = frameNumber]
        removed == RemoveNodeFromOctant(flagged, n, S.node[n].octant)
    IN  Reinsert([removed EXCEPT !.node[n].octant = NullOctant], n, NullOctant, Root)

\* One non-null queue entry, lines 102-136 of Octree::Update.
UpdateNode(S, n, frameNumber) ==
    LET flagged == [S EXCEPT !.node[n].queued = FALSE,
                             !.node[n].lastUpdateFrameNumber = frameNumber]
        oldOctant == S.node[n].octant
        read == [flagged EXCEPT
                   !.fault = @ \cup (IF oldOctant = NullOctant THEN {}
                                     ELSE Deref(S, oldOctant))]
    IN  IF StillFits(read, n, oldOctant) THEN read
        ELSE Reinsert(read, n, oldOctant, Root)

\* The loop over updateQueue ending at the first null entry.
RECURSIVE UpdateLoopUntilNull(_, _, _)
UpdateLoopUntilNull(S, i, frameNumber) ==
    IF i > Len(S.updateQueue) THEN S
    ELSE IF S.updateQueue[i] = NullNode THEN S
    ELSE UpdateLoopUntilNull(UpdateNode(S, S.updateQueue[i], frameNumber), i + 1,
                             frameNumber)

\* The loop over updateQueue, lines 95-137.
RECURSIVE UpdateLoop(_, _, _)
UpdateLoop(S, i, frameNumber) ==
    IF i > Len(S.updateQueue) THEN S
    ELSE IF S.updateQueue[i] = NullNode THEN UpdateLoop(S, i + 1, frameNumber)
    ELSE UpdateLoop(UpdateNode(S, S.updateQueue[i], frameNumber), i + 1, frameNumber)

\* The loop over sortDirtyOctants clearing the flags and leaving the lists
\* in the order the nodes were added.
RECURSIVE SortDirtyFlagsOnly(_, _)
SortDirtyFlagsOnly(S, i) ==
    IF i > Len(S.sortDirtyOctants) THEN S
    ELSE LET octant == S.sortDirtyOctants[i]
         IN  SortDirtyFlagsOnly([S EXCEPT
                                   !.oct[octant].sortDirty = FALSE,
                                   !.fault = @ \cup Deref(S, octant)],
                                i + 1)

\* The loop over sortDirtyOctants, lines 141-146.
RECURSIVE SortDirty(_, _)
SortDirty(S, i) ==
    IF i > Len(S.sortDirtyOctants) THEN S
    ELSE LET octant == S.sortDirtyOctants[i]
         IN  SortDirty([S EXCEPT
                          !.oct[octant].nodes = SortSeq(@, LAMBDA a, b : a < b),
                          !.oct[octant].sortDirty = FALSE,
                          !.fault = @ \cup Deref(S, octant)],
                       i + 1)

\* Octree::Update
UpdateOp(S, frameNumber) ==
    LET drained == [UpdateLoop(S, 1, frameNumber) EXCEPT !.updateQueue = <<>>]
    IN  [SortDirty(drained, 1) EXCEPT !.sortDirtyOctants = <<>>]

---------------------------------------------------------------------------
(* Octree: Resize, RemoveNode, QueueUpdate, CancelUpdate *)

\* Resize that re-queues the nodes and leaves them in their octants.
ResizeKeepOctants(S, boundingBox, numLevels) ==
    [S EXCEPT
        !.updateQueue = CollectNodes(S.oct, Root),
        !.oct[Root] = Initialize(@, NullOctant, boundingBox,
                                 Clamp(numLevels, 1, MAX_OCTREE_LEVELS))]

\* Resize handing the level count to the root as given.
ResizeNoClamp(S, boundingBox, numLevels) ==
    LET collected == [S EXCEPT !.updateQueue = CollectNodes(S.oct, Root)]
        deleted == DeleteChildOctants(collected, Root, FALSE)
        reset == [deleted EXCEPT
                    !.oct = [s \in Slots |-> IF s = Root THEN @[s] ELSE FreeSlot]]
    IN  [reset EXCEPT !.oct[Root] = Initialize(@, NullOctant, boundingBox, numLevels)]

\* Octree::Resize
ResizeOp(S, boundingBox, numLevels) ==
    LET collected == [S EXCEPT !.updateQueue = CollectNodes(S.oct, Root)]
        deleted == DeleteChildOctants(collected, Root, FALSE)
        \* allocator.Reset(): every slot of the pool is given back
        reset == [deleted EXCEPT
                    !.oct = [s \in Slots |-> IF s = Root THEN @[s] ELSE FreeSlot]]
    IN  [reset EXCEPT
            !.oct[Root] = Initialize(@, NullOctant, boundingBox,
                                     Clamp(numLevels, 1, MAX_OCTREE_LEVELS))]

\* QueueUpdate that also reinserts the node at once.
QueueUpdateEager(S, n) ==
    Reinsert([S EXCEPT !.updateQueue = Append(@, n), !.node[n].queued = TRUE],
             n, S.node[n].octant, Root)

\* Octree::QueueUpdate
QueueUpdateOp(S, n) ==
    [S EXCEPT !.updateQueue = Append(@, n), !.node[n].queued = TRUE]

\* CancelUpdate that, finding no entry of the node, overwrites the last one.
CancelUpdateLastEntry(S, n) ==
    LET at == {i \in 1..Len(S.updateQueue) : S.updateQueue[i] = n}
        hit == IF at # {} THEN MinOf(at) ELSE Len(S.updateQueue)
    IN  [S EXCEPT
            !.updateQueue = IF hit = 0 THEN @ ELSE [@ EXCEPT ![hit] = NullNode],
            !.node[n].queued = FALSE]

\* Octree::CancelUpdate
CancelUpdateOp(S, n) ==
    LET at == {i \in 1..Len(S.updateQueue) : S.updateQueue[i] = n}
    IN  [S EXCEPT
            !.updateQueue = IF at = {} THEN @ ELSE [@ EXCEPT ![MinOf(at)] = NullNode],
            !.node[n].queued = FALSE]

\* RemoveNode that leaves the node's back-reference as it is.
RemoveNodeKeepingOctant(S, n) ==
    LET removed == RemoveNodeFromOctant(S, n, S.node[n].octant)
    IN  IF removed.node[n].queued THEN CancelUpdateOp(removed, n) ELSE removed

\* Octree::RemoveNode(OctreeNode*)
RemoveNodeOp(S, n) ==
    LET removed == RemoveNodeFromOctant(S, n, S.node[n].octant)
        cancelled == IF removed.node[n].queued THEN CancelUpdateOp(removed, n)
                     ELSE removed
    IN  [cancelled EXCEPT !.node[n].octant = NullOctant]

\* The loop over updateQueue of Octree::~Octree, lines 69-77: a node that
\* was never inserted loses its octree association and its queued flag.
RECURSIVE ClearNeverInserted(_, _)
ClearNeverInserted(nodeState, queue) ==
    IF queue = <<>> THEN nodeState
    ELSE
        LET n == Head(queue)
        IN  ClearNeverInserted(
                IF n # NullNode /\ nodeState[n].octree /\ nodeState[n].octant = NullOctant
                THEN [nodeState EXCEPT ![n].octree = FALSE, ![n].queued = FALSE]
                ELSE nodeState,
                Tail(queue))

\* The destructor without its loop over the queue.
DestroyTreeOnly(S) ==
    DeleteChildOctants([S EXCEPT !.updateQueue = <<>>], Root, TRUE)

\* Octree::~Octree
DestroyOp(S) ==
    LET cleared == [S EXCEPT !.node = ClearNeverInserted(@, S.updateQueue),
                             !.updateQueue = <<>>]
    IN  DeleteChildOctants(cleared, Root, TRUE)

---------------------------------------------------------------------------
(* Octree: Raycast and RaycastSingle *)

\* A query is [ray, nodeFlags, maxDistance, layerMask, hits]: the ray by its
\* origin (its direction is the positive x axis), the masks as sets of bits,
\* and hits[n] the kind of exact hits the callback of node n reports for this
\* ray.  A RaycastResult is [distance, node, subObject]; its position and
\* normal are carried along unread.

M_INFINITY == 1000000000

Min(a, b) == IF a < b THEN a ELSE b

RaycastResult(distance, n, subObject) ==
    [distance |-> distance, node |-> n, subObject |-> subObject]

\* Ray::HitDistance(const BoundingBox&) for a ray along the positive x axis.
HitDistance(ray, box) ==
    IF \A i \in 1..3 : box.min[i] <= ray.origin[i] /\ ray.origin[i] <= box.max[i]
    THEN 0
    ELSE IF /\ ray.origin[1] < box.min[1]
            /\ \A i \in 2..3 : box.min[i] <= ray.origin[i] /\ ray.origin[i] <= box.max[i]
    THEN box.min[1] - ray.origin[1]
    ELSE M_INFINITY

\* OctreeNode::Flags(): the node's own flags and the update-queued flag.
OwnFlags(n) == IF n = 1 THEN {"NF_ENABLED", "NF_GEOMETRY"} ELSE {"NF_ENABLED"}

Flags(S, n) ==
    OwnFlags(n) \cup (IF S.node[n].queued THEN {"NF_OCTREE_UPDATE_QUEUED"} ELSE {})

\* OctreeNode::LayerMask(), as the set of its bits.
LayerMask(n) == IF n = 1 THEN {0} ELSE {0, 1}

\* (node->Flags() & nodeFlags) == nodeFlags && (node->LayerMask() & layerMask)
Matches(S, n, q) ==
    /\ Flags(S, n) \cap q.nodeFlags = q.nodeFlags
    /\ LayerMask(n) \cap q.layerMask # {}

\* OctreeNode::OnRaycast: what the node's callback appends.  No exact hit is
\* nearer than the bounding box, and none at maxDistance or beyond is
\* reported.
OnRaycast(S, n, q) ==
    LET near == HitDistance(q.ray, S.node[n].box)
        far == near + Fx(2500)
        found ==
            CASE q.hits[n] = "none" -> <<>>
              [] q.hits[n] = "box" -> <<RaycastResult(near, n, 0)>>
              [] q.hits[n] = "behind" -> <<RaycastResult(far, n, 0)>>
              [] q.hits[n] = "two" -> <<RaycastResult(near, n, 0), RaycastResult(far, n, 1)>>
    IN  IF near >= M_INFINITY THEN <<>>
        ELSE SelectSeq(found, LAMBDA r : r.distance < q.maxDistance)

\* The orders std::sort may leave a vector in: every arrangement that
\* ascends in the key (equal keys stand in any order).
\* keys[i] is the key of seq[i].
SortedOrders(seq, keys) ==
    { [i \in 1..Len(seq) |-> seq[p[i]]] :
        p \in {f \in Permutations(1..Len(seq)) :
                 \A i \in 1..(Len(seq) - 1) : keys[f[i]] <= keys[f[i + 1]]} }

\* CompareRaycastResults and CompareNodeDistances sort by these.
ResultDistance(res) == [i \in 1..Len(res) |-> res[i].distance]
NodeDistance(pairs) == [i \in 1..Len(pairs) |-> pairs[i][2]]

\* Octree::CollectNodes, the raycast overload: [res, calls], the results the
\* callbacks append and the nodes whose callback was invoked.
RECURSIVE CollectNodesRaycast(_, _, _)
RECURSIVE CollectChildrenRaycast(_, _, _, _)
RECURSIVE NodesRaycast(_, _, _)

\* The raycast overload of CollectNodes without the test of the octant's
\* culling box: every octant is visited.
CollectNodesRaycastUnpruned(S, octant, q) ==
    LET own == NodesRaycast(S, S.oct[octant].nodes, q)
        below == CollectChildrenRaycast(S, octant, 0, q)
    IN  [res |-> own.res \o below.res, calls |-> own.calls \o below.calls]

NodesRaycast(S, nodes, q) ==
    IF nodes = <<>> THEN [res |-> <<>>, calls |-> <<>>]
    ELSE LET rest == NodesRaycast(S, Tail(nodes), q)
             n == Head(nodes)
         IN  IF Matches(S, n, q)
             THEN [res |-> OnRaycast(S, n, q) \o rest.res, calls |-> <<n>> \o rest.calls]
             ELSE rest

CollectNodesRaycast(S, octant, q) ==
    IF HitDistance(q.ray, S.oct[octant].cullingBox) >= q.maxDistance
    THEN [res |-> <<>>, calls |-> <<>>]
    ELSE LET own == NodesRaycast(S, S.oct[octant].nodes, q)
             below == CollectChildrenRaycast(S, octant, 0, q)
         IN  [res |-> own.res \o below.res, calls |-> own.calls \o below.calls]

CollectChildrenRaycast(S, octant, i, q) ==
    IF i >= NUM_OCTANTS THEN [res |-> <<>>, calls |-> <<>>]
    ELSE LET here == IF S.oct[octant].children[i] # NullOctant
                     THEN CollectNodesRaycast(S, S.oct[octant].children[i], q)
                     ELSE [res |-> <<>>, calls |-> <<>>]
             rest == CollectChildrenRaycast(S, octant, i + 1, q)
         IN  [res |-> here.res \o rest.res, calls |-> here.calls \o rest.calls]

\* Octree::CollectNodes, the bounding-box distance overload: the pairs
\* <<node, distance>> it appends.
RECURSIVE CollectNodesDistance(_, _, _)
RECURSIVE CollectChildrenDistance(_, _, _, _)
RECURSIVE NodesDistance(_, _, _)
NodesDistance(S, nodes, q) ==
    IF nodes = <<>> THEN <<>>
    ELSE LET n == Head(nodes)
             distance == HitDistance(q.ray, S.node[n].box)
         IN  (IF Matches(S, n, q) /\ distance < q.maxDistance
              THEN <<<<n, distance>>>> ELSE <<>>)
             \o NodesDistance(S, Tail(nodes), q)

CollectNodesDistance(S, octant, q) ==
    IF HitDistance(q.ray, S.oct[octant].cullingBox) >= q.maxDistance THEN <<>>
    ELSE NodesDistance(S, S.oct[octant].nodes, q)
         \o CollectChildrenDistance(S, octant, 0, q)

CollectChildrenDistance(S, octant, i, q) ==
    IF i >= NUM_OCTANTS THEN <<>>
    ELSE (IF S.oct[octant].children[i] # NullOctant
          THEN CollectNodesDistance(S, S.oct[octant].children[i], q) ELSE <<>>)
         \o CollectChildrenDistance(S, octant, i + 1, q)

\* RaycastSingle returning the hit of the first candidate that has one.
RECURSIVE SingleLoopFirstHit(_, _, _, _, _)
SingleLoopFirstHit(S, q, candidates, i, acc) ==
    IF i > Len(candidates) \/ acc.finalRes # <<>> THEN acc
    ELSE SingleLoopFirstHit(S, q, candidates, i + 1,
            [acc EXCEPT !.finalRes = OnRaycast(S, candidates[i][1], q),
                        !.calls = Append(@, candidates[i][1])])

\* The loop of Octree::RaycastSingle, lines 213-225, from candidate i on;
\* acc = [finalRes, closestHit, calls].
RECURSIVE SingleLoop(_, _, _, _, _)
SingleLoop(S, q, candidates, i, acc) ==
    IF i > Len(candidates) THEN acc
    ELSE IF candidates[i][2] < Min(acc.closestHit, q.maxDistance)
    THEN LET appended == acc.finalRes \o OnRaycast(S, candidates[i][1], q)
         IN  SingleLoop(S, q, candidates, i + 1,
                [ finalRes |-> appended,
                  closestHit |-> IF Len(appended) > Len(acc.finalRes)
                                 THEN Min(acc.closestHit, appended[Len(appended)].distance)
                                 ELSE acc.closestHit,
                  calls |-> Append(acc.calls, candidates[i][1]) ])
    ELSE acc

\* The RaycastResult Octree::RaycastSingle returns when nothing was hit.
EmptyResult == RaycastResult(M_INFINITY, NullNode, 0)

---------------------------------------------------------------------------
(* The state machine *)

\* World bounding boxes the tracked objects take (world units): the first
\* object any of the four, the others the two that nest.
NestedBoxes ==
    { Cube(Fx(100), Fx(400)),      \* two levels down in the default tree
      Cube(Fx(0), Fx(600)) }       \* one level down, the parent of the former

AllBoxes ==
    NestedBoxes \cup
    { Cube(Fx(-2000), Fx(2000)),   \* exceeds the default root: stays in the root
      Cube(Fx(-1400), Fx(-1100)) } \* small, beyond the root's world box

Boxes(n) == IF n = 1 THEN AllBoxes ELSE NestedBoxes

\* Arguments Resize is called with: <<boundingBox, numLevels>>.
ResizeArgs ==
    { <<Cube(Fx(-DEFAULT_OCTREE_SIZE), Fx(DEFAULT_OCTREE_SIZE)), DEFAULT_OCTREE_LEVELS>>,
      <<Cube(Fx(-500), Fx(500)), 2>> }

\* Frame numbers Update is called with.
FrameNumbers == {1}

Tracked == {n \in Objects : node[n].octant # NullOctant}

Pending == {updateQueue[i] : i \in 1..Len(updateQueue)} \ {NullNode}

Occurrences(seq, x) == Cardinality({i \in 1..Len(seq) : seq[i] = x})

\* No call of Update is under way.  Of a call under way: the loop it is in
\* ("queue" for the loop over updateQueue at `it`, "descent" for the for (;;)
\* loop of the entry at `it`), its argument, the locals oldOctant and
\* newOctant, and the octants the descent of this entry has visited.
NotInUpdate ==
    [ pc |-> "idle", it |-> 0, frameNumber |-> 0,
      oldOctant |-> NullOctant, newOctant |-> NullOctant, visited |-> 0 ]

\* The record before any operation.
NoRecord ==
    [ op |-> "Octree", node |-> NullNode, frameNumber |-> 0,
      boundingBox |-> ZeroBox, numLevels |-> 0, query |-> <<>>, calls |-> <<>>,
      tracked |-> {}, pending |-> {}, twice |-> {},
      afterResize |-> FALSE, resizeTracked |-> {}, resizePending |-> {},
      before |-> [queued |-> FALSE, entries |-> 0, octant |-> NullOctant],
      awaiting |-> {}, resolved |-> {}, settled |-> {},
      allocs |-> 0, frees |-> 0, moves |-> {} ]

Cur ==
    [ oct |-> oct, node |-> node, updateQueue |-> updateQueue,
      sortDirtyOctants |-> sortDirtyOctants, fault |-> fault,
      allocs |-> 0, frees |-> 0, moves |-> {} ]

\* The record of an operation: its name and arguments, for Update and Resize
\* what the octree held when it was called (and for an Update that follows a
\* Resize, what it held before that Resize), and what the operation did to the
\* allocator; for an operation on one node, the node's flag, queue entries and
\* octant when it was called, and for Update the null entries of the queue; the nodes queued since the last Update and
\* neither cancelled nor removed since (awaiting), and for Update those it
\* was called with (resolved); the tracked nodes whose box is the one the
\* last Update that processed them read (settled).
Record(op, n, frameNumber, T) ==
    LET afterResize == op = "Update" /\ hist.op = "Resize"
        batch == op \in {"Update", "Resize", "~Octree"}
    IN  [ NoRecord EXCEPT
            !.op = op, !.node = n, !.frameNumber = frameNumber,
            !.boundingBox = IF afterResize THEN hist.boundingBox ELSE @,
            !.numLevels = IF afterResize THEN hist.numLevels ELSE @,
            !.tracked = IF batch THEN Tracked ELSE {},
            !.pending = IF batch THEN Pending ELSE {},
            !.twice = IF op = "Update"
                      THEN {m \in Objects : Occurrences(updateQueue, m) >= 2} ELSE {},
            !.afterResize = afterResize,
            !.resizeTracked = IF afterResize THEN hist.tracked ELSE {},
            !.resizePending = IF afterResize THEN hist.pending ELSE {},
            !.awaiting = CASE op = "QueueUpdate" -> hist.awaiting \cup {n}
                           [] op \in {"CancelUpdate", "RemoveNode"} -> hist.awaiting \ {n}
                           [] op = "Update" -> {}
                           [] OTHER -> hist.awaiting,
            !.resolved = IF op = "Update" THEN hist.awaiting ELSE {},
            !.settled = {m \in hist.settled \cup (IF op = "Update" THEN Pending ELSE {}) :
                            /\ T.node[m].octant # NullOctant
                            /\ T.node[m].box = node[m].box},
            !.before = IF n = NullNode
                       THEN [@ EXCEPT !.entries = IF op = "Update"
                                                  THEN Occurrences(updateQueue, NullNode)
                                                  ELSE 0]
                       ELSE [ queued |-> node[n].queued,
                              entries |-> Occurrences(updateQueue, n),
                              octant |-> node[n].octant ],
            !.allocs = T.allocs, !.frees = T.frees, !.moves = T.moves ]

Commit(op, n, frameNumber, T) ==
    /\ oct' = T.oct
    /\ node' = T.node
    /\ updateQueue' = T.updateQueue
    /\ sortDirtyOctants' = T.sortDirtyOctants
    /\ fault' = T.fault
    /\ hist' = Record(op, n, frameNumber, T)
    /\ UNCHANGED <<initialRes, finalRes, returned, inUpdate>>

\* Octree::Octree(): the root and an empty pool.
InitOct ==
    [s \in Slots |->
        IF s = Root
        THEN Initialize(NewOctant, NullOctant,
                        Cube(Fx(-DEFAULT_OCTREE_SIZE), Fx(DEFAULT_OCTREE_SIZE)),
                        DEFAULT_OCTREE_LEVELS)
        ELSE FreeSlot]

\* A tracked object that no octree operation has touched yet.
NewNode(box) ==
    [ octant |-> NullOctant, queued |-> FALSE, octree |-> TRUE,
      lastUpdateFrameNumber |-> 0, box |-> box ]

Init ==
    /\ oct = InitOct
    /\ node = [n \in Objects |-> NewNode(Cube(Fx(100), Fx(400)))]
    /\ updateQueue = <<>>
    /\ sortDirtyOctants = <<>>
    /\ initialRes = <<>>
    /\ finalRes = <<>>
    /\ returned = <<>>
    /\ fault = {}
    /\ hist = NoRecord
    /\ inUpdate = NotInUpdate

\* The tracked object moves or changes size: OctreeNode::WorldBoundingBox()
\* returns another box from now on.
SetWorldBoundingBox(n, box) ==
    /\ node[n].box # box
    /\ Commit("SetWorldBoundingBox", NullNode, 0, [Cur EXCEPT !.node[n].box = box])

QueueUpdate(n) ==
    /\ Len(updateQueue) < MaxQueue
    /\ Commit("QueueUpdate", n, 0, QueueUpdateOp(Cur, n))

CancelUpdate(n) ==
    /\ n \in Objects
    /\ Commit("CancelUpdate", n, 0, CancelUpdateOp(Cur, n))

RemoveNode(n) ==
    /\ n \in Objects
    /\ Commit("RemoveNode", n, 0, RemoveNodeOp(Cur, n))

Update(frameNumber) ==
    /\ frameNumber \in 0..65535
    /\ Commit("Update", NullNode, frameNumber, UpdateOp(Cur, frameNumber))

Resize(boundingBox, numLevels) ==
    LET T == ResizeOp(Cur, boundingBox, numLevels)
    IN  /\ oct' = T.oct
        /\ node' = T.node
        /\ updateQueue' = T.updateQueue
        /\ sortDirtyOctants' = T.sortDirtyOctants
        /\ fault' = T.fault
        /\ hist' = [Record("Resize", NullNode, 0, T) EXCEPT
                        !.boundingBox = boundingBox, !.numLevels = numLevels]
        /\ UNCHANGED <<initialRes, finalRes, returned, inUpdate>>

\* The orders in which a set of nodes can be queued.
Orders(set) ==
    {q \in [1..Cardinality(set) -> set] : \A i, j \in DOMAIN q : i # j => q[i] # q[j]}

RECURSIVE QueueAll(_, _)
QueueAll(S, order) ==
    IF order = <<>> THEN S
    ELSE QueueAll(QueueUpdateOp(S, Head(order)), Tail(order))

\* A freshly constructed octree, resized, into which the nodes of `order`
\* (node n with box boxes[n]) are queued and resolved by one Update.
BuiltTree(boxes, boundingBox, numLevels, order) ==
    LET fresh == [ oct |-> InitOct,
                   node |-> [n \in Objects |-> NewNode(boxes[n])],
                   updateQueue |-> <<>>, sortDirtyOctants |-> <<>>, fault |-> {},
                   allocs |-> 0, frees |-> 0, moves |-> {} ]
    IN  UpdateOp(QueueAll(ResizeOp(fresh, boundingBox, numLevels), order), 1)

\* The same with the boxes the nodes have now.
FreshTree(boundingBox, numLevels, order) ==
    BuiltTree([n \in Objects |-> node[n].box], boundingBox, numLevels, order)

Next ==
    \/ \E n \in Objects : \E box \in Boxes(n) : SetWorldBoundingBox(n, box)
    \/ \E n \in Objects : QueueUpdate(n)
    \/ \E n \in Objects : CancelUpdate(n)
    \/ \E n \in Objects : RemoveNode(n)
    \/ \E frameNumber \in FrameNumbers : Update(frameNumber)
    \/ \E args \in ResizeArgs : Resize(args[1], args[2])

Spec == Init /\ [][Next]_vars

---------------------------------------------------------------------------
(* The serialized attributes: boundingBox and numLevels *)

\* Octree::SetBoundingBoxAttr
SetBoundingBoxAttrOp(S, boundingBox) ==
    [S EXCEPT !.oct[Root].worldBoundingBox = boundingBox]

\* Octree::SetNumLevelsAttr
SetNumLevelsAttrOp(S, numLevels) ==
    ResizeOp(S, S.oct[Root].worldBoundingBox, numLevels)

SetBoundingBoxAttr(boundingBox) ==
    /\ oct[Root].worldBoundingBox # boundingBox
    /\ Commit("SetBoundingBoxAttr", NullNode, 0, SetBoundingBoxAttrOp(Cur, boundingBox))

\* Arguments of Resize and of the setters: those of ResizeArgs, and level
\* counts below 1 and above MAX_OCTREE_LEVELS.
AttrArgs ==
    ResizeArgs \cup { <<Cube(Fx(-500), Fx(500)), 0>>, <<Cube(Fx(-500), Fx(500)), 300>> }

SetNumLevelsAttr(numLevels) ==
    /\ numLevels \in {args[2] : args \in AttrArgs}
    /\ Commit("SetNumLevelsAttr", NullNode, 0, SetNumLevelsAttrOp(Cur, numLevels))

\* The octree under the operations that touch the octants' geometry or
\* create octants, the attribute setters among them.
NextAttr ==
    \/ \E n \in Objects : QueueUpdate(n)
    \/ \E n \in Objects : RemoveNode(n)
    \/ \E frameNumber \in FrameNumbers : Update(frameNumber)
    \/ \E args \in AttrArgs : Resize(args[1], args[2])
    \/ \E args \in AttrArgs : SetBoundingBoxAttr(args[1])
    \/ \E args \in AttrArgs : SetNumLevelsAttr(args[2])

SpecAttr == Init /\ [][NextAttr]_vars

---------------------------------------------------------------------------
(* Zero-extent objects, in trees down to the bottom of the float range *)

\* Arguments of Resize: the default tree, a shallow one, a tree of one level
\* and a tree of 8 levels whose root is 16 float spacings wide.
PointTrees ==
    { <<Cube(Fx(-DEFAULT_OCTREE_SIZE), Fx(DEFAULT_OCTREE_SIZE)), DEFAULT_OCTREE_LEVELS>>,
      <<Cube(Fx(-500), Fx(500)), 2>>,
      <<Cube(Fx(-500), Fx(500)), 1>>,
      <<Cube(-8, 8), 8>> }

\* Positions inside a box: two corners, the centre, and two more on the
\* diagonal.
PointsOf(box) ==
    LET c == Center(box)
        q == [i \in 1..3 |-> Half(box.max[i] - c[i])]
    IN  { box.min, c, box.max,
          [i \in 1..3 |-> c[i] + q[i]],
          [i \in 1..3 |-> c[i] + q[i] - 1] }

PointBox(position) == BoundingBox(position, position)

\* The first object is given a position while it is outside the tree, is
\* queued, placed by Update, queued and updated again, and removed.
NextPoint ==
    \/ \E position \in PointsOf(oct[Root].worldBoundingBox) :
          node[1].octant = NullOctant /\ SetWorldBoundingBox(1, PointBox(position))
    \/ QueueUpdate(1)
    \/ RemoveNode(1)
    \/ \E frameNumber \in FrameNumbers : Update(frameNumber)
    \/ \E args \in PointTrees : Resize(args[1], args[2])

SpecPoint == Init /\ [][NextPoint]_vars

---------------------------------------------------------------------------
(* Ray queries against the trees one Update builds *)

\* The queries made: two rays, three distance budgets, three filters (one that
\* both nodes pass, one for each node alone) and four behaviours of the
\* nodes' callbacks.
Rays ==
    { [origin |-> Vector3(Fx(-3000), Fx(250), Fx(250))],
      [origin |-> Vector3(Fx(-3000), Fx(-1250), Fx(-1250))] }

Filters ==
    { [nodeFlags |-> {}, layerMask |-> {0}],
      [nodeFlags |-> {"NF_GEOMETRY"}, layerMask |-> {0}],
      [nodeFlags |-> {}, layerMask |-> {1}] }

HitKinds ==
    { <<"behind", "box">>, <<"two", "two">>, <<"box", "none">>, <<"none", "behind">> }

Queries ==
    { [ ray |-> ray, nodeFlags |-> f.nodeFlags, maxDistance |-> maxDistance,
        layerMask |-> f.layerMask, hits |-> hits ] :
        ray \in Rays, f \in Filters, maxDistance \in {Fx(2600), Fx(3050), M_INFINITY},
        hits \in HitKinds }

\* An octree that was resized and then took every node in one Update.
InitQuery ==
    \E boxes \in {b \in [Objects -> AllBoxes] : \A n \in Objects : b[n] \in Boxes(n)} :
    \E args \in ResizeArgs :
    \E order \in Orders(Objects) :
        LET T == BuiltTree(boxes, args[1], args[2], order)
        IN  /\ oct = T.oct
            /\ node = T.node
            /\ updateQueue = T.updateQueue
            /\ sortDirtyOctants = T.sortDirtyOctants
            /\ initialRes = <<>>
            /\ finalRes = <<>>
            /\ returned = <<>>
            /\ fault = T.fault
            /\ hist = [ NoRecord EXCEPT
                          !.op = "Update", !.frameNumber = 1,
                          !.boundingBox = args[1], !.numLevels = args[2],
                          !.pending = Objects, !.afterResize = TRUE,
                          !.allocs = T.allocs, !.frees = T.frees, !.moves = T.moves ]
            /\ inUpdate = NotInUpdate

\* Raycast that also drops the pending queue.
RaycastDroppingQueue(q) ==
    LET collected == CollectNodesRaycast(Cur, Root, q)
    IN  /\ \E sorted \in SortedOrders(collected.res, ResultDistance(collected.res)) :
              returned' = sorted
        /\ hist' = [NoRecord EXCEPT !.op = "Raycast", !.query = q,
                                    !.calls = collected.calls]
        /\ updateQueue' = <<>>
        /\ UNCHANGED <<oct, node, sortDirtyOctants, initialRes, finalRes, fault, inUpdate>>

\* Octree::Raycast
Raycast(q) ==
    LET collected == CollectNodesRaycast(Cur, Root, q)
    IN  /\ \E sorted \in SortedOrders(collected.res, ResultDistance(collected.res)) :
              returned' = sorted
        /\ hist' = [NoRecord EXCEPT !.op = "Raycast", !.query = q,
                                    !.calls = collected.calls]
        /\ UNCHANGED <<oct, node, updateQueue, sortDirtyOctants, initialRes,
                       finalRes, fault, inUpdate>>

\* Octree::RaycastSingle
RaycastSingle(q) ==
    \E candidates \in SortedOrders(CollectNodesDistance(Cur, Root, q),
                                    NodeDistance(CollectNodesDistance(Cur, Root, q))) :
        LET done == SingleLoop(Cur, q, candidates, 1,
                        [finalRes |-> <<>>, closestHit |-> M_INFINITY, calls |-> <<>>])
        IN  \E sorted \in SortedOrders(done.finalRes, ResultDistance(done.finalRes)) :
                /\ initialRes' = candidates
                /\ finalRes' = sorted
                /\ returned' = IF sorted # <<>> THEN sorted[1] ELSE EmptyResult
                /\ hist' = [NoRecord EXCEPT !.op = "RaycastSingle", !.query = q,
                                            !.calls = done.calls]
                /\ UNCHANGED <<oct, node, updateQueue, sortDirtyOctants, fault, inUpdate>>

NextQuery ==
    \/ \E q \in Queries : Raycast(q)
    \/ \E q \in Queries : RaycastSingle(q)

SpecQuery == InitQuery /\ [][NextQuery]_vars

---------------------------------------------------------------------------
(* The octree up to its destruction *)

Destroy == Commit("~Octree", NullNode, 0, DestroyOp(Cur))

\* Nothing is called on a destroyed octree.
NextDestroy ==
    /\ hist.op # "~Octree"
    /\ \/ \E n \in Objects : \E box \in Boxes(n) : SetWorldBoundingBox(n, box)
       \/ \E n \in Objects : QueueUpdate(n)
       \/ \E n \in Objects : CancelUpdate(n)
       \/ \E n \in Objects : RemoveNode(n)
       \/ \E frameNumber \in FrameNumbers : Update(frameNumber)
       \/ Destroy

SpecDestroy == Init /\ [][NextDestroy]_vars

---------------------------------------------------------------------------
(* Updates of successive frames *)

\* The frame numbers of two successive frames.
SuccessiveFrames == {1, 2}

NextFrames ==
    \/ \E box \in NestedBoxes : SetWorldBoundingBox(1, box)
    \/ \E n \in Objects : QueueUpdate(n)
    \/ \E n \in Objects : CancelUpdate(n)
    \/ \E frameNumber \in SuccessiveFrames : Update(frameNumber)

SpecFrames == Init /\ [][NextFrames]_vars

---------------------------------------------------------------------------
(* Octant::FitBoundingBox on its own *)

\* Coordinates around the bounds FitBoundingBox compares with, on one axis of
\* an octant: each bound, one unit to either side, and the centre.
FitCoordinates(octant) ==
    LET lo == octant.worldBoundingBox.min[1] - Half(octant.halfSize[1])
        hi == octant.worldBoundingBox.max[1] + Half(octant.halfSize[1])
    IN  {lo - 1, lo, lo + 1, octant.center[1], octant.center[1] + 1, hi - 1, hi, hi + 1}

\* Boxes that span two of these coordinates on one axis and a unit about the
\* centre on the others.
FitBoxes(octant) ==
    { BoundingBox([i \in 1..3 |-> IF i = axis THEN a ELSE octant.center[i]],
                  [i \in 1..3 |-> IF i = axis THEN b ELSE octant.center[i] + 1]) :
        axis \in 1..3,
        a \in FitCoordinates(octant),
        b \in FitCoordinates(octant) }

\* One octant of each tree of PointTrees, and a box for the first object.
InitFit ==
    \E args \in PointTrees :
    \E box \in FitBoxes(Initialize(NewOctant, NullOctant, args[1], args[2])) :
        /\ \A i \in 1..3 : box.min[i] <= box.max[i]
        /\ oct = [s \in Slots |->
                    IF s = Root THEN Initialize(NewOctant, NullOctant, args[1], args[2])
                    ELSE FreeSlot]
        /\ node = [n \in Objects |-> NewNode(box)]
        /\ updateQueue = <<>>
        /\ sortDirtyOctants = <<>>
        /\ initialRes = <<>>
        /\ finalRes = <<>>
        /\ returned = <<>>
        /\ fault = {}
        /\ hist = NoRecord
        /\ inUpdate = NotInUpdate

\* A call of the octant's FitBoundingBox with the box and its size.
FitBoundingBoxCall(n) ==
    /\ returned' = FitBoundingBox(oct[Root], node[n].box, Size(node[n].box))
    /\ hist' = [NoRecord EXCEPT !.op = "FitBoundingBox", !.node = n]
    /\ UNCHANGED <<oct, node, updateQueue, sortDirtyOctants, initialRes, finalRes, fault,
                   inUpdate>>

\* The call on its own, and the descent of Update that relies on it.
NextFit ==
    \/ \E n \in Objects : FitBoundingBoxCall(n)
    \/ QueueUpdate(1)
    \/ \E frameNumber \in FrameNumbers : Update(frameNumber)

SpecFit == InitFit /\ [][NextFit]_vars

---------------------------------------------------------------------------
(* Ray queries between the operations that change the octree *)

\* Two queries along the first ray: one that every node passes, one for the
\* nodes whose update is queued.
LookupQueries ==
    { [ ray |-> [origin |-> Vector3(Fx(-3000), Fx(250), Fx(250))],
        nodeFlags |-> f, maxDistance |-> M_INFINITY, layerMask |-> {0},
        hits |-> <<"box", "two">> ] :
        f \in {{}, {"NF_OCTREE_UPDATE_QUEUED"}} }

NextLookup ==
    \/ \E n \in Objects : QueueUpdate(n)
    \/ \E n \in Objects : RemoveNode(n)
    \/ \E frameNumber \in FrameNumbers : Update(frameNumber)
    \/ \E q \in LookupQueries : Raycast(q)
    \/ \E q \in LookupQueries : RaycastSingle(q)

SpecLookup == Init /\ [][NextLookup]_vars

---------------------------------------------------------------------------
(* Update taken one loop iteration at a time *)

\* Arguments of Resize: the default tree, a tree of 8 levels whose root is
\* 16 float spacings wide, and a level count below 1.
StepTrees ==
    { <<Cube(Fx(-DEFAULT_OCTREE_SIZE), Fx(DEFAULT_OCTREE_SIZE)), DEFAULT_OCTREE_LEVELS>>,
      <<Cube(-8, 8), 8>>,
      <<Cube(Fx(-500), Fx(500)), 0>> }

\* The second object has a box that exceeds every root.
InitSteps ==
    /\ oct = InitOct
    /\ node = [n \in Objects |->
                 NewNode(IF n = 1 THEN Cube(Fx(100), Fx(400)) ELSE Cube(Fx(-2000), Fx(2000)))]
    /\ updateQueue = <<>>
    /\ sortDirtyOctants = <<>>
    /\ initialRes = <<>>
    /\ finalRes = <<>>
    /\ returned = <<>>
    /\ fault = {}
    /\ hist = NoRecord
    /\ inUpdate = NotInUpdate

\* Update is called: line 95, the loop over updateQueue begins.
UpdateEnter(frameNumber) ==
    /\ inUpdate.pc = "idle"
    /\ inUpdate' = [NotInUpdate EXCEPT !.pc = "queue", !.it = 1,
                                       !.frameNumber = frameNumber]
    /\ hist' = [NoRecord EXCEPT !.op = "Update", !.frameNumber = frameNumber,
                                !.tracked = Tracked, !.pending = Pending]
    /\ UNCHANGED <<oct, node, updateQueue, sortDirtyOctants, initialRes, finalRes,
                   returned, fault>>

\* One iteration of the loop over updateQueue up to the for (;;) loop, lines
\* 97-114: a null entry and a node that still fits are passed over, for any
\* other the descent starts at the root.
UpdateQueueEntry ==
    /\ inUpdate.pc = "queue"
    /\ inUpdate.it <= Len(updateQueue)
    /\ LET n == updateQueue[inUpdate.it]
           oldOctant == node[n].octant
           flagged == [Cur EXCEPT !.node[n].queued = FALSE,
                                  !.node[n].lastUpdateFrameNumber = inUpdate.frameNumber]
       IN  IF n = NullNode
           THEN /\ inUpdate' = [inUpdate EXCEPT !.it = @ + 1]
                /\ UNCHANGED <<node, fault>>
           ELSE /\ node' = flagged.node
                /\ fault' = fault \cup (IF oldOctant = NullOctant THEN {}
                                        ELSE Deref(Cur, oldOctant))
                /\ inUpdate' = IF StillFits(flagged, n, oldOctant)
                               THEN [inUpdate EXCEPT !.it = @ + 1]
                               ELSE [inUpdate EXCEPT !.pc = "descent",
                                                     !.oldOctant = oldOctant,
                                                     !.newOctant = Root,
                                                     !.visited = 1]
    /\ UNCHANGED <<oct, updateQueue, sortDirtyOctants, initialRes, finalRes, returned,
                   hist>>

\* One iteration of the for (;;) loop, lines 116-136: the node is inserted
\* into newOctant and the loop left, or newOctant becomes its child.
UpdateDescentStep ==
    /\ inUpdate.pc = "descent"
    /\ LET n == updateQueue[inUpdate.it]
           box == node[n].box
           newOctant == inUpdate.newOctant
           moved == MoveNode(Cur, n, inUpdate.oldOctant, newOctant)
           c == CreateChildOctant(Cur, newOctant, ChildIndex(oct[newOctant], Center(box)))
       IN  IF InsertHere(Cur, newOctant, box, Size(box))
           THEN /\ oct' = moved.oct
                /\ node' = moved.node
                /\ sortDirtyOctants' = moved.sortDirtyOctants
                /\ fault' = moved.fault
                /\ inUpdate' = [inUpdate EXCEPT !.pc = "queue", !.it = @ + 1,
                                                !.oldOctant = NullOctant,
                                                !.newOctant = NullOctant,
                                                !.visited = 0]
           ELSE /\ oct' = c.S.oct
                /\ inUpdate' = [inUpdate EXCEPT !.newOctant = c.child,
                                                !.visited = @ + 1]
                /\ UNCHANGED <<node, sortDirtyOctants, fault>>
    /\ UNCHANGED <<updateQueue, initialRes, finalRes, returned, hist>>

\* The queue is done: lines 139-148, and Update returns.
UpdateReturn ==
    /\ inUpdate.pc = "queue"
    /\ inUpdate.it > Len(updateQueue)
    /\ LET sorted == SortDirty([Cur EXCEPT !.updateQueue = <<>>], 1)
       IN  /\ oct' = sorted.oct
           /\ fault' = sorted.fault
           /\ updateQueue' = <<>>
           /\ sortDirtyOctants' = <<>>
    /\ inUpdate' = NotInUpdate
    /\ UNCHANGED <<node, initialRes, finalRes, returned, hist>>

\* The steps of the call of Update under way.
UpdateSteps == UpdateQueueEntry \/ UpdateDescentStep \/ UpdateReturn

\* Update runs to its end before anything else is called (the octree is
\* used from one thread).  The first object is given a position while it is
\* outside the tree, which it is again after a Resize.
NextSteps ==
    \/ /\ inUpdate.pc = "idle"
       /\ \/ \E position \in PointsOf(oct[Root].worldBoundingBox) :
                node[1].octant = NullOctant /\ SetWorldBoundingBox(1, PointBox(position))
          \/ \E n \in Objects : QueueUpdate(n)
          \/ CancelUpdate(1)
          \/ \E args \in StepTrees : Resize(args[1], args[2])
          \/ \E frameNumber \in FrameNumbers : UpdateEnter(frameNumber)
    \/ UpdateQueueEntry
    \/ UpdateDescentStep
    \/ UpdateReturn

\* A call of Update keeps running: nothing in it waits for anything.
SpecSteps == InitSteps /\ [][NextSteps]_vars /\ WF_vars(UpdateSteps)

---------------------------------------------------------------------------
(* Properties the rest relies on *)

\* No operation met undefined behaviour.
NoFault == fault = {}

---------------------------------------------------------------------------
(* What the claims speak of *)

\* The octants linked from the root.
ReachableOctants == {s \in Slots : Reachable(oct, s)}

\* How often a node stands in the object lists of the live octants.
ListCount(octs, n) ==
    LET at == {<<s, i>> \in Slots \X (1..Cardinality(Objects) + MaxQueue) :
                 octs[s].live /\ i <= Len(octs[s].nodes) /\ octs[s].nodes[i] = n}
    IN  Cardinality(at)

\* The numNodes of the children of an octant, summed from child i on.
RECURSIVE ChildCount(_, _, _)
ChildCount(octs, s, i) ==
    IF i >= NUM_OCTANTS THEN 0
    ELSE (IF octs[s].children[i] # NullOctant THEN octs[octs[s].children[i]].numNodes
          ELSE 0) + ChildCount(octs, s, i + 1)

\* An octant's path of child indices from the root.
RECURSIVE PathOf(_, _)
PathOf(octs, octant) ==
    IF octant = Root THEN <<>>
    ELSE LET p == octs[octant].parent
         IN  Append(PathOf(octs, p),
                    CHOOSE i \in ChildIndices : octs[p].children[i] = octant)

\* An octant and its ancestors up to the root.
Chain(octs, octant) ==
    {s \in Slots : s = octant \/ (octs[s].live /\ IsAncestor(octs, s, octant))}

\* The queue without the later entries of a node that is queued twice.
RECURSIVE Dedup(_)
Dedup(queue) ==
    IF queue = <<>> THEN <<>>
    ELSE LET front == Dedup(SubSeq(queue, 1, Len(queue) - 1))
             last == queue[Len(queue)]
         IN  IF last # NullNode /\ \E i \in 1..Len(front) : front[i] = last
             THEN front ELSE Append(front, last)

\* The octant Update descends into from `octant` for a box: the child that
\* CreateChildOctant returns for the ChildIndex of the box's centre (the
\* child that is there, or the one it makes).
SelectedChild(S, octant, box) ==
    LET index == ChildIndex(S.oct[octant], Center(box))
        alone == [S EXCEPT !.oct = [s \in Slots |-> IF s = octant THEN @[s] ELSE FreeSlot]]
        c == CreateChildOctant(alone, octant, index)
    IN  IF S.oct[octant].children[index] # NullOctant
        THEN S.oct[S.oct[octant].children[index]]
        ELSE c.S.oct[c.child]

---------------------------------------------------------------------------
(* Claims *)

\* C1: once RemoveNode(object) has returned, no entry of the pending queue
\* references the object.
C1_RemovedNodeLeftQueue ==
    hist.op = "RemoveNode" =>
        \A i \in 1..Len(updateQueue) : updateQueue[i] # hist.node

\* C2: at every operation boundary the root's numNodes is the number of
\* tracked objects (those whose octant back-reference is not null).
C2_RootCountsTracked == oct[Root].numNodes = Cardinality(Tracked)

C2_Witness ==
    /\ hist.op = "RemoveNode"
    /\ node[hist.node].octant = NullOctant
    /\ Cardinality(Tracked) = 1
    /\ \E n \in Tracked : node[n].octant # Root

\* C3: after Update, every object it processed from the queue is tracked, in
\* the root or in an octant whose cullingBox contains the object's box.
C3_ProcessedInsideCullingBox ==
    hist.op = "Update" =>
        \A n \in hist.pending :
            /\ node[n].octant # NullOctant
            /\ \/ node[n].octant = Root
               \/ IsInside(oct[node[n].octant].cullingBox, node[n].box) = "INSIDE"

C3_Witness ==
    /\ hist.op = "Update"
    /\ \E n \in hist.pending :
          /\ node[n].octant = Root
          /\ IsInside(oct[Root].cullingBox, node[n].box) # "INSIDE"
    /\ \E n \in hist.pending :
          /\ node[n].octant \notin {Root, NullOctant}

\* C4: at every operation boundary every octant held in a children array is
\* live and has numNodes >= 1, and no live pool octant is left with a count
\* of 0 or unlinked from its parent.
C4_NoEmptyChild ==
    /\ \A s \in ReachableOctants, i \in ChildIndices :
          oct[s].children[i] # NullOctant =>
              /\ oct[oct[s].children[i]].live
              /\ oct[oct[s].children[i]].numNodes >= 1
    /\ \A s \in 1..MaxOctants :
          oct[s].live => s \in ReachableOctants /\ oct[s].numNodes >= 1

C4_Witness ==
    /\ hist.op = "RemoveNode"
    /\ hist.frees >= 1
    /\ \E s \in 1..MaxOctants : oct[s].live

\* C5: a move in Update never frees the new octant or an octant between it
\* and the root, and after Update every processed object's back-reference is
\* a reachable octant whose list holds the object.
C5_MoveKeepsNewBranch ==
    /\ "new octant freed" \notin fault
    /\ "use after free" \notin fault
    /\ hist.op = "Update" =>
          \A n \in hist.pending :
              /\ Reachable(oct, node[n].octant)
              /\ \E i \in 1..Len(oct[node[n].octant].nodes) :
                    oct[node[n].octant].nodes[i] = n

C5_Witness ==
    /\ hist.op = "Update"
    /\ {"down", "up"} \subseteq hist.moves
    /\ hist.frees >= 1

\* C6: an Update whose queue holds an object twice gives the tree, and the
\* objects the fields, that the Update of the queue without the repeated
\* entries gives; the object then stands once in one octant's list, and
\* every count is the size of the list plus the counts of the children.
C6_TwiceQueuedResolvedOnce ==
    [][ (hist'.op = "Update" /\ hist'.twice # {}) =>
            LET once == UpdateOp([Cur EXCEPT !.updateQueue = Dedup(updateQueue)],
                                 hist'.frameNumber)
            IN  /\ oct' = once.oct
                /\ node' = once.node
                /\ \A n \in hist'.twice :
                      /\ ListCount(oct', n) = 1
                      /\ node'[n].octant # NullOctant
                      /\ ListCount(oct', n) =
                            Cardinality({i \in 1..Len(oct'[node'[n].octant].nodes) :
                                            oct'[node'[n].octant].nodes[i] = n})
                /\ \A s \in Slots :
                      oct'[s].live =>
                          oct'[s].numNodes = Len(oct'[s].nodes) + ChildCount(oct', s, 0)
      ]_vars

C6_Witness ==
    /\ hist.op = "Update"
    /\ hist.twice # {}
    /\ "insert" \in hist.moves
    /\ \E n \in hist.twice :
          node[n].octant = Root /\ IsInside(oct[Root].cullingBox, node[n].box) # "INSIDE"

\* C7: after Resize(box, levels) and then Update, every tracked object is in
\* the octant, named by its path from the root, that it gets in a fresh tree
\* resized alike, whatever the order in which the objects are queued there.
C7_ResizeThenUpdateAsFresh ==
    (hist.op = "Update" /\ hist.afterResize) =>
        \A order \in Orders(Tracked) :
            LET fresh == FreshTree(hist.boundingBox, hist.numLevels, order)
            IN  \A n \in Tracked :
                    /\ fresh.node[n].octant # NullOctant
                    /\ PathOf(oct, node[n].octant) = PathOf(fresh.oct, fresh.node[n].octant)

C7_Witness ==
    /\ hist.op = "Update"
    /\ hist.afterResize
    /\ Tracked = Objects
    /\ \E n \in Tracked : Len(PathOf(oct, node[n].octant)) >= 2
    /\ \E n, m \in Tracked : node[n].octant # node[m].octant

\* C8: Resize queues every object that was tracked exactly once and nothing
\* else, and after the Update that follows the tracked objects are those that
\* were tracked or pending before Resize, each once in one octant's list.
C8_ResizeKeepsEveryObject ==
    /\ hist.op = "Resize" =>
          /\ \A n \in hist.tracked : Occurrences(updateQueue, n) = 1
          /\ Pending \subseteq hist.tracked
    /\ (hist.op = "Update" /\ hist.afterResize) =>
          /\ Tracked = hist.resizeTracked \cup hist.resizePending
          /\ \A n \in Tracked : ListCount(oct, n) = 1

\* C10 as stated: QueueUpdate, CancelUpdate and RemoveNode neither allocate
\* nor free an octant.
C10_OnlyUpdateTouchesPool ==
    hist.op \in {"QueueUpdate", "CancelUpdate", "RemoveNode"} =>
        hist.allocs = 0 /\ hist.frees = 0

\* C10 as amended: octants are allocated only inside Update; QueueUpdate and
\* CancelUpdate neither allocate nor free; RemoveNode and Resize never
\* allocate (they free the octants they empty).
C10_OnlyUpdateAllocates ==
    /\ hist.allocs > 0 => hist.op = "Update"
    /\ hist.frees > 0 => hist.op \in {"Update", "RemoveNode", "Resize"}

C10_Witness ==
    /\ hist.op = "RemoveNode"
    /\ hist.frees >= 2
    /\ hist.allocs = 0

C11_GeometryDerivedFromWorldBox ==
    \A s \in Slots :
        oct[s].live =>
            /\ oct[s].center = Center(oct[s].worldBoundingBox)
            /\ oct[s].halfSize = HalfSize(oct[s].worldBoundingBox)
            /\ oct[s].cullingBox =
                  BoundingBox([i \in 1..3 |-> oct[s].worldBoundingBox.min[i] - oct[s].halfSize[i]],
                              [i \in 1..3 |-> oct[s].worldBoundingBox.max[i] + oct[s].halfSize[i]])

\* C12: CancelUpdate of an object that has no queue entry and whose queued
\* flag is false changes neither the queue, nor a flag, nor an octant, nor a
\* back-reference.
C12_CancelOfUnqueuedIsNoOp ==
    [][ ( /\ hist'.op = "CancelUpdate"
          /\ hist'.before.entries = 0
          /\ ~hist'.before.queued ) =>
            /\ updateQueue' = updateQueue
            /\ node' = node
            /\ oct' = oct
            /\ sortDirtyOctants' = sortDirtyOctants
      ]_vars

C12_Witness ==
    /\ hist.op = "CancelUpdate"
    /\ hist.before.entries = 0
    /\ ~hist.before.queued
    /\ node[hist.node].octant # NullOctant
    /\ \E i \in 1..Len(updateQueue) : updateQueue[i] \notin {NullNode, hist.node}

\* C13: RemoveNode of a tracked object takes it out of its octant's list,
\* lowers numNodes by one on that octant and each ancestor (and on no other
\* octant), nulls the back-reference, clears the queued flag and, when the
\* object has a queue entry, replaces an entry of it by null, leaving the
\* queue's length and the other objects' entries as they were; RemoveNode of
\* an untracked object whose flag is false changes nothing.
C13_RemoveNodeEffect ==
    [][ hist'.op = "RemoveNode" =>
          LET n == hist'.node
              octant == node[n].octant
          IN  IF octant # NullOctant
              THEN /\ ListCount(oct', n) = 0
                   /\ \A s \in Slots :
                         oct'[s].numNodes =
                             IF s \in Chain(oct, octant) THEN oct[s].numNodes - 1
                             ELSE oct[s].numNodes
                   /\ node'[n].octant = NullOctant
                   /\ ~node'[n].queued
                   /\ Len(updateQueue') = Len(updateQueue)
                   /\ \A i \in 1..Len(updateQueue) :
                         updateQueue[i] # n => updateQueue'[i] = updateQueue[i]
                   /\ Occurrences(updateQueue, n) >= 1 =>
                         \E i \in 1..Len(updateQueue) :
                             updateQueue[i] = n /\ updateQueue'[i] = NullNode
              ELSE ~node[n].queued =>
                       /\ oct' = oct
                       /\ node' = node
                       /\ updateQueue' = updateQueue
      ]_vars

\* C14: RemoveNode of an object in a nested octant frees exactly the octants
\* of its chain whose numNodes was 1, the root never; no other octant is
\* freed or created, and no children array names a freed octant afterwards.
C14_PruneExactlyEmptied ==
    [][ ( /\ hist'.op = "RemoveNode"
          /\ node[hist'.node].octant \notin {NullOctant, Root} ) =>
            LET octant == node[hist'.node].octant
                emptied == {s \in Chain(oct, octant) \ {Root} : oct[s].numNodes = 1}
            IN  /\ {s \in Slots : oct[s].live /\ ~oct'[s].live} = emptied
                /\ {s \in Slots : ~oct[s].live /\ oct'[s].live} = {}
                /\ hist'.frees = Cardinality(emptied)
                /\ oct'[Root].live
                /\ \A s \in Slots, i \in ChildIndices :
                      oct'[s].children[i] \notin emptied
                /\ \A s \in Slots :
                      (oct[s].live /\ oct[s].numNodes >= 2) => oct'[s].live
      ]_vars

C14_Witness ==
    /\ hist.op = "RemoveNode"
    /\ hist.before.octant \notin {NullOctant, Root}
    /\ hist.frees >= 2
    /\ \E s \in 1..MaxOctants : oct[s].live /\ oct[s].numNodes >= 1

\* C15: an Update leaves in the root every object it processes whose box is
\* not inside the root's cullingBox, as it does the box [-2000,2000]^3 in the
\* default tree, and allocates no octant when it processes only such objects.
C15_OutOfBoundsStaysInRoot ==
    hist.op = "Update" =>
        LET out == {n \in hist.pending :
                      \/ IsInside(oct[Root].cullingBox, node[n].box) # "INSIDE"
                      \/ /\ node[n].box = Cube(Fx(-2000), Fx(2000))
                         /\ oct[Root].worldBoundingBox =
                               Cube(Fx(-DEFAULT_OCTREE_SIZE), Fx(DEFAULT_OCTREE_SIZE))}
        IN  /\ \A n \in out : node[n].octant = Root
            /\ (hist.pending # {} /\ out = hist.pending) => hist.allocs = 0

C15_Witness ==
    /\ hist.op = "Update"
    /\ hist.moves = {}
    /\ \E n \in hist.pending \cap hist.tracked :
          /\ IsInside(oct[Root].cullingBox, node[n].box) = "OUTSIDE"
          /\ node[n].octant = Root
    /\ \E s \in 1..MaxOctants : oct[s].live

\* The zero-extent objects inside the root's world box that the last Update
\* processed.
PointsProcessed ==
    {n \in hist.pending :
        /\ node[n].box.min = node[n].box.max
        /\ IsInside(oct[Root].worldBoundingBox, node[n].box) = "INSIDE"}

\* C16 as stated: Update places a zero-extent object inside the root's world
\* box in an octant of level 1, N-1 descents below the root of an N-level
\* tree, whose cullingBox contains the position.
C16_PointReachesLevelOne ==
    hist.op = "Update" =>
        \A n \in PointsProcessed :
            LET octant == node[n].octant
            IN  /\ octant # NullOctant
                /\ oct[octant].level = 1
                /\ Len(PathOf(oct, octant)) = oct[Root].level - 1
                /\ IsInside(oct[octant].cullingBox, node[n].box) = "INSIDE"

\* C16 as amended: the octant is k descents below the root, of level N-k,
\* and its cullingBox contains the position; it is of level 1 unless
\* rounding has made the octant degenerate on some axis (its half size is 0,
\* or half of it is lost when added to the octant's bounds), and so it is of
\* level 1 in the default tree of 8 levels.
C16_PointReachesLevelOneOrUnderflow ==
    hist.op = "Update" =>
        \A n \in PointsProcessed :
            LET octant == node[n].octant
            IN  /\ octant # NullOctant
                /\ Len(PathOf(oct, octant)) = oct[Root].level - oct[octant].level
                /\ IsInside(oct[octant].cullingBox, node[n].box) = "INSIDE"
                /\ \/ oct[octant].level = 1
                   \/ \E i \in 1..3 : Half(oct[octant].halfSize[i]) = 0
                /\ ( /\ oct[Root].worldBoundingBox =
                           Cube(Fx(-DEFAULT_OCTREE_SIZE), Fx(DEFAULT_OCTREE_SIZE))
                     /\ oct[Root].level = DEFAULT_OCTREE_LEVELS )
                      => oct[octant].level = 1

C16_Witness ==
    /\ hist.op = "Update"
    /\ oct[Root].level = DEFAULT_OCTREE_LEVELS
    /\ oct[Root].worldBoundingBox = Cube(Fx(-DEFAULT_OCTREE_SIZE), Fx(DEFAULT_OCTREE_SIZE))
    /\ \E n \in PointsProcessed :
          /\ node[n].box = PointBox(Vector3(0, 0, 0))
          /\ oct[node[n].octant].level = 1
          /\ Len(PathOf(oct, node[n].octant)) = DEFAULT_OCTREE_LEVELS - 1

\* C17: after Update every object that stood in the queue, and every object
\* queued since the Update before and neither cancelled nor removed, has a
\* back-reference to a reachable octant whose list holds it, and the root
\* counts each object that was untracked once more.
C17_QueuedBecomesTracked ==
    hist.op = "Update" =>
        /\ \A n \in hist.pending \cup hist.resolved :
              /\ node[n].octant # NullOctant
              /\ Reachable(oct, node[n].octant)
              /\ Occurrences(oct[node[n].octant].nodes, n) = 1
        /\ oct[Root].numNodes =
              Cardinality(hist.tracked \cup hist.pending \cup hist.resolved)

\* C18: Resize(box, n) meets no fault whatever n is, and leaves the root with
\* the world box `box` and the level n, 1 for n < 1 and 256 for n > 256.
C18_ResizeClampsLevels ==
    hist.op = "Resize" =>
        /\ fault = {}
        /\ oct[Root].live
        /\ oct[Root].worldBoundingBox = hist.boundingBox
        /\ oct[Root].level = IF hist.numLevels < 1 THEN 1
                             ELSE IF hist.numLevels > 256 THEN 256
                             ELSE hist.numLevels

C18_Witness ==
    /\ hist.op = "Resize"
    /\ hist.numLevels > 256
    /\ oct[Root].level = 256
    /\ hist.tracked # {}

\* C19: Resize leaves a live root with no child, no object and a count of 0,
\* no other live octant and no back-reference; it hands each octant that was
\* live to the allocator's Free once, and the root never.
C19_ResizeEmptiesTree ==
    [][ hist'.op = "Resize" =>
          /\ oct'[Root].live
          /\ \A i \in ChildIndices : oct'[Root].children[i] = NullOctant
          /\ oct'[Root].nodes = <<>>
          /\ oct'[Root].numNodes = 0
          /\ \A s \in 1..MaxOctants : ~oct'[s].live
          /\ \A n \in Objects : node'[n].octant = NullOctant
          /\ hist'.frees = Cardinality({s \in 1..MaxOctants : oct[s].live})
          /\ fault' = fault
      ]_vars

C19_Witness ==
    /\ hist.op = "Resize"
    /\ hist.tracked = Objects
    /\ hist.frees >= 3
    /\ oct[Root].numNodes = 0

\* C20: Raycast invokes the callback of exactly the tracked objects whose
\* flags contain the required flags, whose layer is in the query's layer
\* mask, and whose octant and all its ancestors have a culling box the ray
\* hits closer than maxDistance, each once; it returns exactly the hits these
\* callbacks append, in ascending order of distance.
C20_Eligible ==
    {n \in Objects :
        /\ node[n].octant # NullOctant
        /\ hist.query.nodeFlags \subseteq Flags(Cur, n)
        /\ LayerMask(n) \cap hist.query.layerMask # {}
        /\ \A s \in Chain(oct, node[n].octant) :
              HitDistance(hist.query.ray, oct[s].cullingBox) < hist.query.maxDistance}

C20_RaycastReturnsExactlyEligibleHits ==
    hist.op = "Raycast" =>
        /\ {hist.calls[i] : i \in 1..Len(hist.calls)} = C20_Eligible
        /\ Len(hist.calls) = Cardinality(C20_Eligible)
        /\ \A i \in 1..Len(returned) :
              \E n \in C20_Eligible :
                  \E k \in 1..Len(OnRaycast(Cur, n, hist.query)) :
                      OnRaycast(Cur, n, hist.query)[k] = returned[i]
        /\ \A n \in C20_Eligible :
              \A k \in 1..Len(OnRaycast(Cur, n, hist.query)) :
                  Cardinality({i \in 1..Len(returned) :
                                  returned[i] = OnRaycast(Cur, n, hist.query)[k]})
                  = Cardinality({j \in 1..Len(OnRaycast(Cur, n, hist.query)) :
                                  OnRaycast(Cur, n, hist.query)[j]
                                  = OnRaycast(Cur, n, hist.query)[k]})
        /\ \A i \in 1..Len(returned) - 1 :
              returned[i].distance <= returned[i + 1].distance

\* A raycast that returns a hit and leaves out a matching object, whose
\* octant was pruned.
C20_Witness ==
    /\ hist.op = "Raycast"
    /\ Len(returned) >= 1
    /\ \E n \in Objects \ C20_Eligible :
          /\ node[n].octant # NullOctant
          /\ hist.query.nodeFlags \subseteq Flags(Cur, n)
          /\ LayerMask(n) \cap hist.query.layerMask # {}

\* C21: Raycast and RaycastSingle change no octant (list, numNodes, children,
\* level, boxes, whether its slot is allocated), no object's back-reference
\* or queued flag, and not the pending queue.
C21_QueriesReadOnly ==
    [][ hist'.op \in {"Raycast", "RaycastSingle"} =>
          /\ oct' = oct
          /\ node' = node
          /\ updateQueue' = updateQueue
          /\ sortDirtyOctants' = sortDirtyOctants
          /\ fault' = fault
      ]_vars

\* A ray query that found a hit while a queue entry, a tombstone and a queued
\* flag stood, in a tree with child octants.
C21_Witness ==
    /\ hist.op \in {"Raycast", "RaycastSingle"}
    /\ hist.calls # <<>>
    /\ \E i \in 1..Len(updateQueue) : updateQueue[i] = NullNode
    /\ \E n \in Objects : node[n].queued /\ node[n].octant # NullOctant
    /\ \E s \in 1..MaxOctants : oct[s].live

\* C22: after the destructor every object that was tracked or had a non-null
\* entry in the pending queue has a null octant, no octree association and a
\* cleared queued flag, and the queue is empty.
C22_DestroyedReleasesObjects ==
    hist.op = "~Octree" =>
        /\ \A n \in hist.tracked \cup hist.pending :
              /\ node[n].octant = NullOctant
              /\ ~node[n].octree
              /\ ~node[n].queued
        /\ updateQueue = <<>>

\* A destruction that met a tracked object in a child octant, a queued object
\* that was never inserted, and nothing else to release.
C22_Witness ==
    /\ hist.op = "~Octree"
    /\ hist.tracked # {}
    /\ hist.pending \ hist.tracked # {}
    /\ hist.frees >= 2
    /\ \A n \in Objects : ~node[n].octree

\* C23: at every operation boundary an object's queued flag is true exactly
\* when the pending queue holds a non-null entry for the object, after Resize
\* as after every other operation.
C23_FlagIffQueued ==
    \A n \in Objects : node[n].queued <=> n \in Pending

\* C24: Update(frameNumber) leaves the queue empty, leaves the tree and the
\* objects as the Update of the queue without its null entries leaves them,
\* and leaves every object that had a non-null entry with a cleared queued
\* flag and frameNumber as its lastUpdateFrameNumber.
C24_UpdateDrainsAndStamps ==
    [][ hist'.op = "Update" =>
          LET live == SelectSeq(updateQueue, LAMBDA e : e # NullNode)
              T == UpdateOp([Cur EXCEPT !.updateQueue = live], hist'.frameNumber)
          IN  /\ updateQueue' = <<>>
              /\ oct' = T.oct
              /\ node' = T.node
              /\ \A n \in Pending :
                    /\ ~node'[n].queued
                    /\ node'[n].lastUpdateFrameNumber = hist'.frameNumber
      ]_vars

\* An Update of the second frame whose queue held a null entry and an
\* object that took the fast path.
C24_Witness ==
    /\ hist.op = "Update"
    /\ hist.frameNumber = 2
    /\ hist.before.entries >= 1
    /\ hist.moves = {}
    /\ \E n \in hist.pending \cap hist.tracked :
          /\ StillFits(Cur, n, node[n].octant)
          /\ node[n].lastUpdateFrameNumber = 2
    /\ \E n \in Objects \ hist.pending : node[n].lastUpdateFrameNumber = 1

\* C25: FitBoundingBox(box, boxSize) returns true exactly when the octant's
\* level is at most 1, or boxSize is at least the octant's halfSize on some
\* axis, or on some axis box.min <= world.min - 0.5 * halfSize or
\* box.max >= world.max + 0.5 * halfSize.
C25_FitExactly ==
    hist.op = "FitBoundingBox" =>
        LET o == oct[Root]
            box == node[hist.node].box
        IN  returned =
              ( \/ o.level <= 1
                \/ \E i \in 1..3 : box.max[i] - box.min[i] >= o.halfSize[i]
                \/ \E i \in 1..3 :
                      \/ box.min[i] <= o.worldBoundingBox.min[i] - Half(o.halfSize[i])
                      \/ box.max[i] >= o.worldBoundingBox.max[i] + Half(o.halfSize[i]) )

\* A call that returns true for a box smaller than the half size, in an
\* octant above level 1, that just reaches the bound on one axis.
C25_Witness ==
    /\ hist.op = "FitBoundingBox"
    /\ returned = TRUE
    /\ oct[Root].level > 1
    /\ \A i \in 1..3 :
          node[hist.node].box.max[i] - node[hist.node].box.min[i] < oct[Root].halfSize[i]
    /\ \E i \in 1..3 :
          node[hist.node].box.max[i]
              = oct[Root].worldBoundingBox.max[i] + Half(oct[Root].halfSize[i])

\* C26: whenever FitBoundingBox returns false for an octant and a box, the
\* cullingBox of the child selected by the box's centre contains the box;
\* and after Update the box of every object it processed is inside the
\* cullingBox of every octant below the root on the way to the object.
C26_DescentKeepsBoxInside ==
    /\ \A s \in Slots, n \in Objects :
          ( /\ oct[s].live
            /\ ~FitBoundingBox(oct[s], node[n].box, Size(node[n].box)) ) =>
              IsInside(SelectedChild(Cur, s, node[n].box).cullingBox, node[n].box)
                  = "INSIDE"
    /\ hist.op = "Update" =>
          \A n \in hist.pending :
              \A s \in Chain(oct, node[n].octant) \ {Root} :
                  IsInside(oct[s].cullingBox, node[n].box) = "INSIDE"

\* An Update that took an object into a child octant of an 8-level tree
\* whose world box the object's box lies outside of.
C26_Witness ==
    /\ hist.op = "Update"
    /\ \E n \in hist.pending :
          /\ node[n].octant # Root
          /\ oct[Root].level = DEFAULT_OCTREE_LEVELS
          /\ IsInside(oct[node[n].octant].worldBoundingBox, node[n].box) = "OUTSIDE"

\* C27: an Update whose queue holds only objects that are tracked and whose
\* box has not changed since the Update that last processed them changes no
\* octant (lists, counts, children, live octants), moves no object, and
\* neither allocates nor frees an octant.
C27_UpdateStable ==
    [][ ( /\ hist'.op = "Update"
          /\ Pending # {}
          /\ Pending \subseteq hist.settled ) =>
            /\ oct' = oct
            /\ \A n \in Objects : node'[n].octant = node[n].octant
            /\ hist'.allocs = 0
            /\ hist'.frees = 0
            /\ hist'.moves = {}
      ]_vars

\* C28: Update leaves a queued object whose octant's cullingBox contains its
\* box and whose octant's FitBoundingBox returns true in that octant; an
\* Update whose queue holds only such objects changes no octant (list,
\* numNodes, sortDirty), creates and frees no octant and adds no object to a
\* list, so that no octant is marked sortDirty.
C28_FastPathChangesNothing ==
    [][ hist'.op = "Update" =>
          LET fast == {n \in Pending :
                         /\ node[n].octant # NullOctant
                         /\ IsInside(oct[node[n].octant].cullingBox, node[n].box) = "INSIDE"
                         /\ FitBoundingBox(oct[node[n].octant], node[n].box,
                                           Size(node[n].box))}
          IN  /\ \A n \in fast :
                    /\ node'[n].octant = node[n].octant
                    /\ Occurrences(oct'[node[n].octant].nodes, n) = 1
              /\ (Pending # {} /\ fast = Pending) =>
                    /\ oct' = oct
                    /\ sortDirtyOctants' = sortDirtyOctants
                    /\ hist'.allocs = 0
                    /\ hist'.frees = 0
                    /\ hist'.moves = {}
      ]_vars

\* An Update that only took the fast path, for two objects in different
\* octants, one of them alone in an octant below the root.
C28_Witness ==
    /\ hist.op = "Update"
    /\ hist.pending = Objects
    /\ hist.moves = {}
    /\ \A n \in Objects : StillFits(Cur, n, node[n].octant)
    /\ \E n, m \in Objects :
          /\ node[n].octant # Root
          /\ oct[node[n].octant].numNodes = 1
          /\ node[m].octant # node[n].octant

\* C29: at every operation boundary the numNodes of every reachable octant is
\* the number of objects in its own list plus the numNodes of its children.
C29_CountIsListPlusChildren ==
    \A s \in ReachableOctants :
        oct[s].numNodes = Len(oct[s].nodes) + ChildCount(oct, s, 0)

\* A removal that left one object in the root's list and one two levels
\* below, counted by every octant on the way.
C29_Witness ==
    /\ hist.op = "RemoveNode"
    /\ hist.frees >= 1
    /\ oct[Root].numNodes >= 1
    /\ \E s \in ReachableOctants \ {Root} :
          /\ oct[s].nodes # <<>>
          /\ oct[s].parent # Root
          /\ oct[oct[s].parent].numNodes = Len(oct[s].nodes)
          /\ oct[oct[s].parent].nodes = <<>>

\* An Update that met only settled objects: one that took the fast path in
\* an octant below the root, and one that the root kept on re-insertion.
C27_Witness ==
    /\ hist.op = "Update"
    /\ hist.pending = Objects
    /\ hist.pending \subseteq hist.tracked
    /\ hist.settled = Objects
    /\ hist.moves = {}
    /\ hist.allocs = 0
    /\ \E n, m \in Objects :
          /\ node[n].octant # Root
          /\ node[m].octant = Root
          /\ ~StillFits(Cur, m, Root)

\* C30: at every operation boundary each object stands in at most one
\* octant's list, at most once, and its back-reference is non-null exactly
\* when it points to a reachable octant whose list holds the object.
C30_OneListOneBackReference ==
    \A n \in Objects :
        /\ ListCount(oct, n) <= 1
        /\ node[n].octant # NullOctant =>
              /\ Reachable(oct, node[n].octant)
              /\ Occurrences(oct[node[n].octant].nodes, n) = 1
        /\ node[n].octant = NullOctant => ListCount(oct, n) = 0

\* A state in which one object is in the list of an octant below the root
\* and the other, removed from a sibling branch that was pruned, is in none.
C30_Witness ==
    /\ hist.op = "RemoveNode"
    /\ hist.before.octant \notin {NullOctant, Root}
    /\ hist.frees >= 1
    /\ node[hist.node].octant = NullOctant
    /\ \E n \in Objects : node[n].octant \notin {NullOctant, Root}

\* C31: in every reachable state the live octants form a tree rooted at the
\* root, whose parent is null: each child is live, is held at one place only,
\* has its holder for parent and a level one below its holder's; every live
\* octant has a level of at least 1, and an octant of level 1 has no child.
C31_LevelsAndParentsFormTree ==
    /\ oct[Root].parent = NullOctant
    /\ \A s \in Slots : oct[s].live =>
          /\ oct[s].level >= 1
          /\ Reachable(oct, s)
          /\ oct[s].level = 1 => \A i \in ChildIndices : oct[s].children[i] = NullOctant
          /\ \A i \in ChildIndices :
                LET c == oct[s].children[i]
                IN  c # NullOctant =>
                        /\ c # Root
                        /\ oct[c].live
                        /\ oct[c].parent = s
                        /\ oct[c].level = oct[s].level - 1
                        /\ \A t \in Slots, j \in ChildIndices :
                              (oct[t].live /\ oct[t].children[j] = c) => (t = s /\ j = i)

\* A state with an object in an octant of level 1, the child of a root of
\* level 2.
C31_Witness ==
    /\ oct[Root].level = 2
    /\ \E n \in Objects :
          /\ node[n].octant \notin {NullOctant, Root}
          /\ oct[node[n].octant].level = 1
          /\ oct[node[n].octant].parent = Root
          /\ oct[node[n].octant].nodes # <<>>

\* C32: when Update returns the sort-dirty set is empty, no reachable octant
\* has sortDirty set, and the list of every octant that received an object
\* during that Update ascends in the objects' addresses and holds the
\* elements it held when the queue had been drained, before the sort.
C32_UpdateSortsDirtyOctants ==
    [][ hist'.op = "Update" =>
          LET drained == UpdateLoop(Cur, 1, hist'.frameNumber)
              received == {s \in Slots : \E n \in Objects :
                              node'[n].octant = s /\ node[n].octant # s}
          IN  /\ sortDirtyOctants' = <<>>
              /\ \A s \in Slots : Reachable(oct', s) => ~oct'[s].sortDirty
              /\ \A s \in received :
                    /\ \A i \in 1..(Len(oct'[s].nodes) - 1) :
                          oct'[s].nodes[i] <= oct'[s].nodes[i + 1]
                    /\ Len(oct'[s].nodes) = Len(drained.oct[s].nodes)
                    /\ \A n \in Objects : Occurrences(oct'[s].nodes, n)
                                          = Occurrences(drained.oct[s].nodes, n) ]_vars

\* An Update has added object 1 to the octant below the root that held
\* object 2, behind it, and the list now begins with object 1.
C32_Witness ==
    /\ hist.op = "Update"
    /\ hist.tracked = {2}
    /\ hist.pending = {1}
    /\ node[1].octant # Root
    /\ node[1].octant = node[2].octant
    /\ oct[node[1].octant].nodes = <<1, 2>>

\* C33: every octant in the sort-dirty set is live when Update sorts it: once
\* the queue is drained, each entry of the set is an octant linked from the
\* root that still carries the flag AddNode gave it, and stands in the set
\* once; no later removal of the same Update has pruned it, whatever the
\* queue held, duplicate entries included.
C33_DirtyOctantsLiveWhenSorted ==
    [][ hist'.op = "Update" =>
          LET drained == UpdateLoop(Cur, 1, hist'.frameNumber)
              dirty == drained.sortDirtyOctants
          IN  /\ \A i \in 1..Len(dirty) :
                    /\ Reachable(drained.oct, dirty[i])
                    /\ drained.oct[dirty[i]].sortDirty
                    /\ \A j \in 1..Len(dirty) : dirty[j] = dirty[i] => j = i
              /\ "use after free" \notin fault' ]_vars

\* An Update called with a node queued twice has moved it to another octant,
\* which it marked dirty, and has then pruned the octant the node left.
C33_Witness ==
    /\ hist.op = "Update"
    /\ hist.twice # {}
    /\ hist.frees >= 1
    /\ hist.moves \cap {"across", "up", "down"} # {}
    /\ \E n \in hist.twice : node[n].octant \notin {NullOctant, Root}

\* The least distance among the exact hits that the callbacks of the first k
\* candidates append; infinite when they append none.
C34_NearestAppended(S, q, candidates, k) ==
    LET ds == UNION { {OnRaycast(S, candidates[i][1], q)[h].distance :
                          h \in 1..Len(OnRaycast(S, candidates[i][1], q))} :
                      i \in 1..k }
    IN  IF ds = {} THEN M_INFINITY ELSE MinOf(ds)

\* The closest distance RaycastSingle tracks once it has invoked the first k
\* candidates.
C34_TrackedClosest(S, q, candidates, k) ==
    SingleLoop(S, q, SubSeq(candidates, 1, k), 1,
               [finalRes |-> <<>>, closestHit |-> M_INFINITY, calls |-> <<>>]).closestHit

\* C34: the second phase of RaycastSingle walks the candidates in ascending
\* order of their bounding-box distance; it invokes a candidate's callback
\* exactly when it invoked every earlier candidate and the candidate's bound
\* is below min(m, maxDistance), m being the least distance of the exact hits
\* appended so far (infinite when there is none); and the closest distance it
\* tracks is m after every callback, however many hits a callback appends.
C34_SingleInvokesWhileBoundBelowNearest ==
    hist.op = "RaycastSingle" =>
        LET q == hist.query
            invoked == 1..Len(hist.calls)
        IN  /\ Len(hist.calls) <= Len(initialRes)
            /\ \A i \in 1..(Len(initialRes) - 1) : initialRes[i][2] <= initialRes[i + 1][2]
            /\ \A i \in invoked : hist.calls[i] = initialRes[i][1]
            /\ \A i \in 1..Len(initialRes) :
                  i \in invoked <=>
                      /\ \A j \in 1..(i - 1) : j \in invoked
                      /\ initialRes[i][2] <
                            Min(C34_NearestAppended(Cur, q, initialRes, i - 1), q.maxDistance)
            /\ \A k \in invoked :
                  C34_TrackedClosest(Cur, q, initialRes, k)
                      = C34_NearestAppended(Cur, q, initialRes, k)

\* C35: Update terminates, whatever the queue and the boxes: the root's level
\* is at least 1 in every reachable state, the n-th octant a descent visits
\* has the root's level less n - 1, so a descent visits no more octants than
\* the root has levels, and a call of Update under way always returns.
C35_UpdateTerminates ==
    /\ [](/\ oct[Root].level >= 1
          /\ inUpdate.pc = "descent" =>
                /\ inUpdate.visited <= oct[Root].level
                /\ oct[inUpdate.newOctant].level = oct[Root].level - inUpdate.visited + 1)
    /\ (inUpdate.pc # "idle") ~> (inUpdate.pc = "idle")

\* The descent of a point has reached the eighth octant of a tree of eight
\* levels, in an Update whose queue holds a second entry.
C35_Witness ==
    /\ inUpdate.pc = "descent"
    /\ oct[Root].level = DEFAULT_OCTREE_LEVELS
    /\ inUpdate.visited = DEFAULT_OCTREE_LEVELS
    /\ Len(updateQueue) = 2

\* C36: at every operation boundary the octants the allocator holds as
\* allocated are exactly the octants other than the root that are linked from
\* the root: none is allocated and out of reach (no leak), and no operation
\* has freed an octant twice, freed a null pointer, touched a freed octant or
\* freed one that still had a child or a node in its list.
C36_AllocatedExactlyReachable ==
    /\ \A s \in 1..MaxOctants : oct[s].live <=> Reachable(oct, s)
    /\ fault \cap {"double free", "free of null", "freed in use", "use after free"} = {}

\* An Update has allocated two octants and freed one, and two allocated
\* octants are linked from the root.
C36_Witness ==
    /\ hist.op = "Update"
    /\ hist.allocs >= 2
    /\ hist.frees >= 1
    /\ Cardinality({s \in 1..MaxOctants : oct[s].live}) >= 2

====
